---- MODULE Spec2Model ----
(***************************************************************************)
(* A model of the finance tracker's persistence store (utils/database.py)  *)
(* and recurrence engine (utils/reminders.py).                             *)
(*                                                                         *)
(* Conventions                                                             *)
(*  - Python None / SQL NULL in an id or date column is None (0): SQLite   *)
(*    AUTOINCREMENT keys start at 1 and the code tests these columns by    *)
(*    truthiness, so None and 0 behave alike.                              *)
(*  - Amounts and balances are integers (minor currency units).            *)
(*  - ISO dates "YYYY-MM-DD" are day ordinals; the code's string compare   *)
(*    of two fixed-width ISO dates is the compare of their ordinals.       *)
(*  - A connection is [work, commits]: work is what the connection sees    *)
(*    (committed and pending writes), commits the snapshots made durable   *)
(*    by each conn.commit() of the running call, in order.                 *)
(*  - A storage failure raises out of the handler; nothing in the program  *)
(*    catches it (main.py catches ValueError only), so the process ends    *)
(*    and pending writes are lost: the store is left at the last commit.   *)
(***************************************************************************)
EXTENDS Integers, Sequences, FiniteSets, TLC

None == 0

\* Bounds of the model
MaxTx == 1
MaxLedger == 2
MaxSeedings == 2
MaxInterval == 2
MaxAccounts == 3
MaxBalance == 3
MaxDay == 2
MaxInstances == 3

Types == {"Expense", "Income", "Transfer"}

VARIABLES accounts, transactions, recurring, tx_seq, categories, budgets, goals, debts, settings, sqlite_sequence, today, running, scheduled, passes, last

vars == <<accounts, transactions, recurring, tx_seq, categories, budgets, goals, debts, settings, sqlite_sequence, today, running, scheduled, passes, last>>

storeVars == <<accounts, transactions, recurring, tx_seq, categories, budgets, goals, debts, settings, sqlite_sequence>>

appVars == <<running, scheduled, passes>>

\* The tables as one value: what a connection reads and writes.
\* sqlite_sequence holds the last AUTOINCREMENT key of categories and accounts
\* (that of transactions is tx_seq).
Store ==
  [accounts |-> accounts, transactions |-> transactions, recurring |-> recurring, tx_seq |-> tx_seq,
   categories |-> categories, budgets |-> budgets, goals |-> goals, debts |-> debts,
   settings |-> settings, sqlite_sequence |-> sqlite_sequence]

Connect(s) == [work |-> s, commits |-> <<>>]

\* conn.commit(): the pending writes become durable.
Commit(c) == [c EXCEPT !.commits = Append(@, c.work)]

\* Transaction.__init__: the record handed to the store.
Transaction(id, type, amount, category, subcategory, account, to_account, date, description, recurring_id) ==
  [id |-> id, transaction_type |-> type, amount |-> amount, category_id |-> category,
   subcategory_id |-> subcategory, account_id |-> account, to_account_id |-> to_account,
   date |-> date, description |-> description, recurring_id |-> recurring_id]

\* The columns of a transactions row written by INSERT.
Row(t) ==
  [transaction_type |-> t.transaction_type, amount |-> t.amount, category_id |-> t.category_id,
   subcategory_id |-> t.subcategory_id, account_id |-> t.account_id, to_account_id |-> t.to_account_id,
   date |-> t.date, description |-> t.description, recurring_id |-> t.recurring_id]

\* UPDATE accounts SET current_balance = current_balance + ? WHERE id = ?
SetBalance(s, account_id, amount) ==
  [s EXCEPT !.accounts = [a \in DOMAIN s.accounts |->
      IF a = account_id
        THEN [s.accounts[a] EXCEPT !.current_balance = @ + amount]
        ELSE s.accounts[a]]]

update_account_balance(c, account_id, amount) ==
  Commit([c EXCEPT !.work = SetBalance(c.work, account_id, amount)])

\* INSERT INTO transactions ...; the key is the next AUTOINCREMENT value.
InsertTransaction(s, t) ==
  LET id == s.tx_seq + 1 IN
  [s EXCEPT !.tx_seq = id,
            !.transactions = [i \in DOMAIN s.transactions \cup {id} |->
                                IF i = id THEN Row(t) ELSE s.transactions[i]]]

\* ApplyNew crediting only the source side of a Transfer.
ApplyNewOneSided(c, t) ==
  IF t.transaction_type = "Expense" /\ t.account_id # None
    THEN update_account_balance(c, t.account_id, -t.amount)
  ELSE IF t.transaction_type = "Income" /\ t.account_id # None
    THEN update_account_balance(c, t.account_id, t.amount)
  ELSE IF t.transaction_type = "Transfer" /\ t.account_id # None
    THEN update_account_balance(c, t.account_id, -t.amount)
  ELSE c

\* The balance updates add_transaction makes after its INSERT.
ApplyNew(c, t) ==
  IF t.transaction_type = "Expense" /\ t.account_id # None
    THEN update_account_balance(c, t.account_id, -t.amount)
  ELSE IF t.transaction_type = "Income" /\ t.account_id # None
    THEN update_account_balance(c, t.account_id, t.amount)
  ELSE IF t.transaction_type = "Transfer"
    THEN LET c1 == IF t.account_id # None
                     THEN update_account_balance(c, t.account_id, -t.amount)
                     ELSE c
         IN IF t.to_account_id # None
              THEN update_account_balance(c1, t.to_account_id, t.amount)
              ELSE c1
  ELSE c

\* add_transaction adding an Expense to the spent value of its category's
\* budgets.
add_transaction_spending(c, t) ==
  LET c1 == ApplyNew([c EXCEPT !.work = InsertTransaction(c.work, t)], t)
      rows == c1.work.budgets
      spent == [b \in DOMAIN rows |->
                  IF t.transaction_type = "Expense" /\ rows[b].category_id = t.category_id
                    THEN [rows[b] EXCEPT !.spent = @ + t.amount]
                    ELSE rows[b]]
  IN Commit([c1 EXCEPT !.work.budgets = spent])

add_transaction(c, t) ==
  Commit(ApplyNew([c EXCEPT !.work = InsertTransaction(c.work, t)], t))

\* SELECT * FROM transactions WHERE id = ?: is there a row.
get_transaction_by_id(s, id) == id \in DOMAIN s.transactions

\* update_transaction reverting the stored row's balance effect.
RevertOld(c, id) ==
  IF get_transaction_by_id(c.work, id)
    THEN LET old == c.work.transactions[id] IN
         IF old.transaction_type = "Expense" /\ old.account_id # None
           THEN update_account_balance(c, old.account_id, old.amount)
         ELSE IF old.transaction_type = "Income" /\ old.account_id # None
           THEN update_account_balance(c, old.account_id, -old.amount)
         ELSE c
    ELSE c

\* UpdateRow writing recurring_id with the other columns.
UpdateRowWhole(s, t) ==
  [s EXCEPT !.transactions = [i \in DOMAIN s.transactions |->
      IF i = t.id THEN Row(t) ELSE s.transactions[i]]]

\* UPDATE transactions SET <every column but recurring_id> WHERE id = ?
UpdateRow(s, t) ==
  [s EXCEPT !.transactions = [i \in DOMAIN s.transactions |->
      IF i = t.id
        THEN [Row(t) EXCEPT !.recurring_id = s.transactions[i].recurring_id]
        ELSE s.transactions[i]]]

\* ReapplyNew treating a Transfer as add_transaction does.
ReapplyNewWithTransfer(c, t) ==
  IF t.transaction_type = "Expense" /\ t.account_id # None
    THEN update_account_balance(c, t.account_id, -t.amount)
  ELSE IF t.transaction_type = "Income" /\ t.account_id # None
    THEN update_account_balance(c, t.account_id, t.amount)
  ELSE IF t.transaction_type = "Transfer"
    THEN LET c1 == IF t.account_id # None
                     THEN update_account_balance(c, t.account_id, -t.amount)
                     ELSE c
         IN IF t.to_account_id # None
              THEN update_account_balance(c1, t.to_account_id, t.amount)
              ELSE c1
  ELSE c

\* The balance updates update_transaction makes after its UPDATE.
ReapplyNew(c, t) ==
  IF t.transaction_type = "Expense" /\ t.account_id # None
    THEN update_account_balance(c, t.account_id, -t.amount)
  ELSE IF t.transaction_type = "Income" /\ t.account_id # None
    THEN update_account_balance(c, t.account_id, t.amount)
  ELSE c

update_transaction(c, t) ==
  LET c1 == RevertOld(c, t.id)
      c2 == [c1 EXCEPT !.work = UpdateRow(c1.work, t)]
  IN Commit(ReapplyNew(c2, t))

\* DELETE FROM transactions WHERE id = ?
DeleteRow(s, id) ==
  [s EXCEPT !.transactions = [i \in DOMAIN s.transactions \ {id} |-> s.transactions[i]]]

\* delete_transaction reverting the stored row's balance effect.
RevertDeleted(c, id) ==
  IF get_transaction_by_id(c.work, id)
    THEN LET trans == c.work.transactions[id] IN
         IF trans.transaction_type = "Expense" /\ trans.account_id # None
           THEN update_account_balance(c, trans.account_id, trans.amount)
         ELSE IF trans.transaction_type = "Income" /\ trans.account_id # None
           THEN update_account_balance(c, trans.account_id, -trans.amount)
         ELSE c
    ELSE c

delete_transaction(c, id) ==
  LET c1 == RevertDeleted(c, id)
  IN Commit([c1 EXCEPT !.work = DeleteRow(c1.work, id)])

(***************************************************************************)
(* Budgets (utils/database.py).                                            *)
(***************************************************************************)

\* Budget.__init__: a budgets row.
Budget(category_id, amount, period, start_date, end_date, alert_percentage, spent) ==
  [category_id |-> category_id, amount |-> amount, period |-> period, start_date |-> start_date,
   end_date |-> end_date, alert_percentage |-> alert_percentage, spent |-> spent]

RECURSIVE SumAmount(_, _)
\* SUM(amount) over the transactions rows ids.
SumAmount(s, ids) ==
  IF ids = {} THEN 0
  ELSE LET i == CHOOSE x \in ids : TRUE IN s.transactions[i].amount + SumAmount(s, ids \ {i})

\* WHERE category_id = ? AND transaction_type = 'Expense' AND date BETWEEN ? AND ?
\* (a NULL parameter matches no row).
ExpensesOf(s, category_id, period_start, period_end) ==
  { i \in DOMAIN s.transactions :
      /\ category_id # None /\ s.transactions[i].category_id = category_id
      /\ s.transactions[i].transaction_type = "Expense"
      /\ period_start <= s.transactions[i].date /\ s.transactions[i].date <= period_end }

\* UPDATE budgets SET spent = ? WHERE category_id = ?
SetSpent(s, category_id, spent) ==
  [s EXCEPT !.budgets = [b \in DOMAIN s.budgets |->
      IF category_id # None /\ s.budgets[b].category_id = category_id
        THEN [s.budgets[b] EXCEPT !.spent = spent]
        ELSE s.budgets[b]]]

\* update_budget_spent summing the Expenses dated before period_end.
update_budget_spent_exclusive(c, category_id, period_start, period_end) ==
  LET rows == ExpensesOf(c.work, category_id, period_start, period_end - 1)
      result == IF rows = {} THEN None ELSE SumAmount(c.work, rows)
      spent == IF result # 0 THEN result ELSE 0
  IN Commit([c EXCEPT !.work = SetSpent(c.work, category_id, spent)])

\* SUM over no row is NULL; result if result else 0.0.
update_budget_spent(c, category_id, period_start, period_end) ==
  LET rows == ExpensesOf(c.work, category_id, period_start, period_end)
      result == IF rows = {} THEN None ELSE SumAmount(c.work, rows)
      spent == IF result # 0 THEN result ELSE 0
  IN Commit([c EXCEPT !.work = SetSpent(c.work, category_id, spent)])

(***************************************************************************)
(* Construction of the store (Database.__init__) and the tables it seeds.  *)
(* The display columns (icon, color, account_type) play no part in any     *)
(* decision of the code and are left out of the rows.                      *)
(***************************************************************************)

\* The names of the default Expense categories, in insertion order.
expense_categories ==
  <<"Food & Dining", "Shopping", "Transportation", "Entertainment", "Bills & Utilities",
    "Healthcare", "Education", "Travel", "Personal", "Others">>

\* The names of the default Income categories, in insertion order.
income_categories == <<"Salary", "Business", "Investments", "Gifts", "Other Income">>

default_settings ==
  ("currency" :> "USD") @@ ("date_format" :> "%Y-%m-%d") @@ ("theme" :> "Light")
    @@ ("pin_code" :> "") @@ ("auto_backup" :> "0") @@ ("backup_frequency" :> "weekly")
    @@ ("financial_month_start" :> "1")

\* A categories row.
Category(name, category_type) == [name |-> name, category_type |-> category_type]

\* An accounts row.
Account(name, initial_balance, current_balance) ==
  [name |-> name, initial_balance |-> initial_balance, current_balance |-> current_balance]

\* INSERT INTO categories ...; the key is the next AUTOINCREMENT value.
InsertCategory(s, category) ==
  LET id == s.sqlite_sequence.categories + 1 IN
  [s EXCEPT !.sqlite_sequence.categories = id,
            !.categories = [i \in DOMAIN s.categories \cup {id} |->
                              IF i = id THEN category ELSE s.categories[i]]]

RECURSIVE InsertCategories(_, _, _)
\* for name, icon, color in ...: INSERT INTO categories
InsertCategories(s, names, category_type) ==
  IF names = <<>> THEN s
  ELSE InsertCategories(InsertCategory(s, Category(Head(names), category_type)),
                        Tail(names), category_type)

\* InsertAccount with a key column that is not AUTOINCREMENT: the key is the
\* largest stored key plus one.
InsertAccountRowid(s, account) ==
  LET id == IF DOMAIN s.accounts = {} THEN 1
            ELSE 1 + CHOOSE a \in DOMAIN s.accounts : \A b \in DOMAIN s.accounts : b <= a
  IN [s EXCEPT !.sqlite_sequence.accounts = id,
               !.accounts = [i \in DOMAIN s.accounts \cup {id} |->
                               IF i = id THEN account ELSE s.accounts[i]]]

\* INSERT INTO accounts ...; the key is the next AUTOINCREMENT value.
InsertAccount(s, account) ==
  LET id == s.sqlite_sequence.accounts + 1 IN
  [s EXCEPT !.sqlite_sequence.accounts = id,
            !.accounts = [i \in DOMAIN s.accounts \cup {id} |->
                            IF i = id THEN account ELSE s.accounts[i]]]

\* INSERT OR IGNORE INTO settings (key, value), for every default setting.
InsertOrIgnoreSettings(s) ==
  [s EXCEPT !.settings = [k \in DOMAIN s.settings \cup DOMAIN default_settings |->
                            IF k \in DOMAIN s.settings THEN s.settings[k] ELSE default_settings[k]]]

\* initialize_default_data seeding the accounts table without its row count.
initialize_default_data_unguarded(c) ==
  LET c1 == IF Cardinality(DOMAIN c.work.categories) = 0
              THEN Commit([c EXCEPT !.work =
                     InsertCategories(InsertCategories(@, expense_categories, "Expense"),
                                      income_categories, "Income")])
              ELSE c
      c2 == Commit([c1 EXCEPT !.work = InsertAccount(@, Account("Cash", 0, 0))])
  IN Commit([c2 EXCEPT !.work = InsertOrIgnoreSettings(@)])

initialize_default_data(c) ==
  LET c1 == IF Cardinality(DOMAIN c.work.categories) = 0
              THEN Commit([c EXCEPT !.work =
                     InsertCategories(InsertCategories(@, expense_categories, "Expense"),
                                      income_categories, "Income")])
              ELSE c
      c2 == IF Cardinality(DOMAIN c1.work.accounts) = 0
              THEN Commit([c1 EXCEPT !.work = InsertAccount(@, Account("Cash", 0, 0))])
              ELSE c1
  IN Commit([c2 EXCEPT !.work = InsertOrIgnoreSettings(@)])

\* CREATE TABLE IF NOT EXISTS, for every table: a table that exists keeps its
\* rows (a missing table and an empty one are the same here).
create_tables(c) == Commit(c)

\* Database.__init__ on the store file s.
Database(s) == initialize_default_data(create_tables(Connect(s)))

\* A store file that does not exist yet.
NoFile ==
  [accounts |-> <<>>, transactions |-> <<>>, recurring |-> <<>>, tx_seq |-> 0,
   categories |-> <<>>, budgets |-> <<>>, goals |-> <<>>, debts |-> <<>>,
   settings |-> <<>>, sqlite_sequence |-> [categories |-> 0, accounts |-> 0]]

add_account(c, account) == Commit([c EXCEPT !.work = InsertAccount(@, account)])

\* UPDATE accounts SET name=?, initial_balance=?, current_balance=?, ...
\* WHERE id=?
update_account(c, account_id, account) ==
  Commit([c EXCEPT !.work.accounts = [i \in DOMAIN @ |->
                                        IF i = account_id THEN account ELSE @[i]]])

\* save_account of the account form: edit_account is the id of the account
\* being edited, or None for a new account; name and initial_balance are the
\* fields of the form.  An empty name is refused.
save_account(c, edit_account, name, initial_balance) ==
  IF name = "" THEN c
  ELSE LET account == Account(name, initial_balance, initial_balance) IN
       IF edit_account # None
         THEN update_account(c, edit_account, account)
         ELSE add_account(c, account)

RECURSIVE SumBalance(_, _)
\* SUM(current_balance) over the accounts rows ids.
SumBalance(s, ids) ==
  IF ids = {} THEN 0
  ELSE LET a == CHOOSE x \in ids : TRUE IN s.accounts[a].current_balance + SumBalance(s, ids \ {a})

\* SELECT SUM(current_balance) FROM accounts; result if result else 0.0.
get_total_balance(s) ==
  LET result == IF DOMAIN s.accounts = {} THEN None ELSE SumBalance(s, DOMAIN s.accounts)
  IN IF result # 0 THEN result ELSE 0

\* DELETE FROM accounts WHERE id = ?
delete_account(c, account_id) ==
  Commit([c EXCEPT !.work.accounts = [i \in DOMAIN @ \ {account_id} |-> @[i]]])

\* DELETE FROM categories WHERE id = ?
delete_category(c, category_id) ==
  Commit([c EXCEPT !.work.categories = [i \in DOMAIN @ \ {category_id} |-> @[i]]])

\* set_setting written with INSERT OR IGNORE: a stored key keeps its value.
set_setting_ignore(c, key, value) ==
  Commit([c EXCEPT !.work.settings = [k \in DOMAIN @ \cup {key} |->
                                        IF k \in DOMAIN @ THEN @[k] ELSE value]])

\* INSERT OR REPLACE INTO settings (key, value)
set_setting(c, key, value) ==
  Commit([c EXCEPT !.work.settings = [k \in DOMAIN @ \cup {key} |->
                                        IF k = key THEN value ELSE @[k]]])

\* SELECT value FROM settings WHERE key = ?: the value, or None.
get_setting(s, key) == IF key \in DOMAIN s.settings THEN s.settings[key] ELSE None

(***************************************************************************)
(* Recurrence engine (utils/reminders.py).                                 *)
(***************************************************************************)

\* RecurringTransaction.__init__: a recurring_transactions row.
RecurringTransaction(type, amount, category, subcategory, account, description, frequency, interval, start_date, end_date, next_due_date, auto_create, active) ==
  [transaction_type |-> type, amount |-> amount, category_id |-> category,
   subcategory_id |-> subcategory, account_id |-> account, description |-> description,
   frequency |-> frequency, custom_interval |-> interval, start_date |-> start_date,
   end_date |-> end_date, next_due_date |-> next_due_date, auto_create |-> auto_create,
   active |-> active]

\* dict(row): the row with its key.
Listed(s, id) ==
  LET r == s.recurring[id] IN
  [id |-> id, transaction_type |-> r.transaction_type, amount |-> r.amount,
   category_id |-> r.category_id, subcategory_id |-> r.subcategory_id,
   account_id |-> r.account_id, description |-> r.description, frequency |-> r.frequency,
   custom_interval |-> r.custom_interval, start_date |-> r.start_date, end_date |-> r.end_date,
   next_due_date |-> r.next_due_date, auto_create |-> r.auto_create, active |-> r.active]

RECURSIVE OrderByNextDueDate(_, _)
\* ORDER BY r.next_due_date (NULL first), rows of equal date in key order.
OrderByNextDueDate(s, ids) ==
  IF ids = {} THEN <<>>
  ELSE LET first == CHOOSE i \in ids : \A j \in ids :
                      \/ s.recurring[i].next_due_date < s.recurring[j].next_due_date
                      \/ /\ s.recurring[i].next_due_date = s.recurring[j].next_due_date
                         /\ i <= j
       IN <<Listed(s, first)>> \o OrderByNextDueDate(s, ids \ {first})

\* SELECT ... FROM recurring_transactions r WHERE r.active = 1 ORDER BY r.next_due_date
get_recurring_transactions(s) ==
  OrderByNextDueDate(s, { i \in DOMAIN s.recurring : s.recurring[i].active })

\* check_recurring_transactions keeping the patterns due strictly before today.
check_recurring_transactions_strict(s, now) ==
  LET IsDue(trans) ==
        /\ trans.next_due_date # None /\ trans.next_due_date < now
        /\ trans.active /\ trans.auto_create
  IN SelectSeq(get_recurring_transactions(s), IsDue)

check_recurring_transactions(s, now) ==
  LET IsDue(trans) ==
        /\ trans.next_due_date # None /\ trans.next_due_date <= now
        /\ trans.active /\ trans.auto_create
  IN SelectSeq(get_recurring_transactions(s), IsDue)

\* calculate_next_due_date taking an interval of weeks as one of days.
calculate_next_due_date_days(current_date, frequency, interval) ==
  IF frequency = "Daily" THEN current_date + interval
  ELSE IF frequency = "Weekly" THEN current_date + interval
  ELSE IF frequency = "Monthly" THEN current_date + 30 * interval
  ELSE IF frequency = "Yearly" THEN current_date + 365 * interval
  ELSE current_date + interval

calculate_next_due_date(current_date, frequency, interval) ==
  IF frequency = "Daily" THEN current_date + interval
  ELSE IF frequency = "Weekly" THEN current_date + 7 * interval
  ELSE IF frequency = "Monthly" THEN current_date + 30 * interval
  ELSE IF frequency = "Yearly" THEN current_date + 365 * interval
  ELSE current_date + interval

\* RecurringInstance leaving out the back-reference to the pattern.
RecurringInstanceUnlinked(rec, now) ==
  Transaction(None, rec.transaction_type, rec.amount, rec.category_id, rec.subcategory_id,
              rec.account_id, None, now, rec.description, None)

\* The Transaction built from a due pattern, dated now.
RecurringInstance(rec, now) ==
  Transaction(None, rec.transaction_type, rec.amount, rec.category_id, rec.subcategory_id,
              rec.account_id, None, now, rec.description, rec.id)

\* UPDATE recurring_transactions SET next_due_date = ? WHERE id = ?
SetNextDueDate(s, id, next_date) ==
  [s EXCEPT !.recurring = [i \in DOMAIN s.recurring |->
      IF i = id THEN [s.recurring[i] EXCEPT !.next_due_date = next_date] ELSE s.recurring[i]]]

\* Materialize leaving the pattern's next_due_date as it was.
MaterializeKeepingCursor(c, rec, now) ==
  Commit(add_transaction(c, RecurringInstance(rec, now)))

\* One iteration of the loop of create_recurring_transaction_instances.
Materialize(c, rec, now) ==
  LET c1 == add_transaction(c, RecurringInstance(rec, now))
      next_date == calculate_next_due_date(rec.next_due_date, rec.frequency, rec.custom_interval)
  IN Commit([c1 EXCEPT !.work = SetNextDueDate(c1.work, rec.id, next_date)])

\* The activation record of create_recurring_transaction_instances: the list
\* due_transactions, the position of the loop in it, created_count.
Frame(due) == [due_transactions |-> due, i |-> 1, created_count |-> 0]

RECURSIVE MaterializeAll(_, _, _)
\* for recurring in due_transactions: the loop over the list as it was read.
MaterializeAll(c, due, now) ==
  IF due = <<>> THEN c
  ELSE MaterializeAll(Materialize(c, Head(due), now), Tail(due), now)

\* create_recurring_transaction_instances from call to return.
create_recurring_transaction_instances(c, now) ==
  MaterializeAll(c, check_recurring_transactions(c.work, now), now)

(***************************************************************************)
(* Reminder engine (utils/reminders.py).  now is datetime.now(): the day   *)
(* and the time of day, 0 for midnight sharp and 1 for any later time.     *)
(* A percentage a/b*100 is kept as the fraction [num, den]; the JOINed     *)
(* display columns (category_name, icon, color) are left out of the rows.  *)
(***************************************************************************)

\* Debt.__init__: a debts row.
Debt(debt_type, person_name, amount, amount_paid, date, due_date, settled) ==
  [debt_type |-> debt_type, person_name |-> person_name, amount |-> amount,
   amount_paid |-> amount_paid, date |-> date, due_date |-> due_date, settled |-> settled]

\* Goal.__init__: a goals row.
Goal(name, target_amount, current_amount, deadline, completed) ==
  [name |-> name, target_amount |-> target_amount, current_amount |-> current_amount,
   deadline |-> deadline, completed |-> completed]

RECURSIVE OrderedBy(_, _)
\* ORDER BY two columns: the keys ids by ascending rank[id] = <<first, second>>
\* (NULL first), rows of equal rank in key order.
OrderedBy(ids, rank) ==
  IF ids = {} THEN <<>>
  ELSE LET first == CHOOSE i \in ids : \A j \in ids :
                      \/ rank[i][1] < rank[j][1]
                      \/ rank[i][1] = rank[j][1] /\ rank[i][2] < rank[j][2]
                      \/ rank[i] = rank[j] /\ i <= j
       IN <<first>> \o OrderedBy(ids \ {first}, rank)

\* SELECT b.* FROM budgets b LEFT JOIN categories c ... ORDER BY b.id
get_budgets(s) ==
  LET ids == OrderedBy(DOMAIN s.budgets, [b \in DOMAIN s.budgets |-> <<b, b>>])
  IN [k \in 1 .. Len(ids) |-> s.budgets[ids[k]]]

\* SELECT * FROM debts ORDER BY settled, due_date
get_debts(s) ==
  LET ids == OrderedBy(DOMAIN s.debts,
                       [d \in DOMAIN s.debts |->
                          <<IF s.debts[d].settled THEN 1 ELSE 0, s.debts[d].due_date>>])
  IN [k \in 1 .. Len(ids) |-> s.debts[ids[k]]]

\* SELECT * FROM goals ORDER BY completed, deadline
get_goals(s) ==
  LET ids == OrderedBy(DOMAIN s.goals,
                       [g \in DOMAIN s.goals |->
                          <<IF s.goals[g].completed THEN 1 ELSE 0, s.goals[g].deadline>>])
  IN [k \in 1 .. Len(ids) |-> s.goals[ids[k]]]

\* (part / whole * 100) if whole > 0 else 0
Percentage(part, whole) ==
  IF whole > 0 THEN [num |-> part * 100, den |-> whole] ELSE [num |-> 0, den |-> 1]

\* percentage >= x, percentage < x
AtLeast(percentage, x) == percentage.num >= x * percentage.den

Below(percentage, x) == percentage.num < x * percentage.den

\* (datetime.strptime(date, "%Y-%m-%d") - now).days: the whole days of the
\* difference, rounded down.
DaysUntil(date, now) == IF now.time = 0 THEN date - now.day ELSE date - now.day - 1

\* check_budget_alerts alerting above the threshold only.
check_budget_alerts_strict(s) ==
  LET Alerting(budget) ==
        ~Below(Percentage(budget.spent, budget.amount), budget.alert_percentage)
        /\ ~(Percentage(budget.spent, budget.amount).num
               = budget.alert_percentage * Percentage(budget.spent, budget.amount).den)
      Alert(budget) ==
        LET percentage == Percentage(budget.spent, budget.amount) IN
        [type |-> "budget_alert", percentage |-> percentage, spent |-> budget.spent,
         amount |-> budget.amount,
         severity |-> IF AtLeast(percentage, 100) THEN "high" ELSE "medium"]
      due == SelectSeq(get_budgets(s), Alerting)
  IN [k \in 1 .. Len(due) |-> Alert(due[k])]

check_budget_alerts(s) ==
  LET Alerting(budget) ==
        AtLeast(Percentage(budget.spent, budget.amount), budget.alert_percentage)
      Alert(budget) ==
        LET percentage == Percentage(budget.spent, budget.amount) IN
        [type |-> "budget_alert", percentage |-> percentage, spent |-> budget.spent,
         amount |-> budget.amount,
         severity |-> IF AtLeast(percentage, 100) THEN "high" ELSE "medium"]
      due == SelectSeq(get_budgets(s), Alerting)
  IN [k \in 1 .. Len(due) |-> Alert(due[k])]

check_debt_due_dates(s, now) ==
  LET Alerting(debt) ==
        /\ ~(debt.settled \/ debt.due_date = None)
        /\ DaysUntil(debt.due_date, now) <= 7
      Alert(debt) ==
        LET days_until_due == DaysUntil(debt.due_date, now) IN
        [type |-> "debt_due", person |-> debt.person_name,
         amount |-> debt.amount - debt.amount_paid, due_date |-> debt.due_date,
         days_until_due |-> days_until_due,
         severity |-> IF days_until_due <= 0 THEN "high" ELSE "medium"]
      due == SelectSeq(get_debts(s), Alerting)
  IN [k \in 1 .. Len(due) |-> Alert(due[k])]

check_goal_deadlines(s, now) ==
  LET Alerting(goal) ==
        /\ ~(goal.completed \/ goal.deadline = None)
        /\ DaysUntil(goal.deadline, now) <= 30
        /\ Below(Percentage(goal.current_amount, goal.target_amount), 100)
      Alert(goal) ==
        [type |-> "goal_deadline", name |-> goal.name,
         percentage |-> Percentage(goal.current_amount, goal.target_amount),
         remaining |-> goal.target_amount - goal.current_amount, deadline |-> goal.deadline,
         days_until_deadline |-> DaysUntil(goal.deadline, now), severity |-> "low"]
      due == SelectSeq(get_goals(s), Alerting)
  IN [k \in 1 .. Len(due) |-> Alert(due[k])]

\* get_all_notifications: the recurring patterns due, then the budget, debt
\* and goal alerts (message is description and amount).
get_all_notifications(s, now) ==
  LET due_recurring == check_recurring_transactions(s, now.day)
      notifications ==
        [k \in 1 .. Len(due_recurring) |->
           [type |-> "recurring_due", title |-> "Recurring Transaction Due",
            message |-> [description |-> due_recurring[k].description,
                         amount |-> due_recurring[k].amount],
            severity |-> "medium"]]
  IN notifications \o check_budget_alerts(s) \o check_debt_due_dates(s, now)
       \o check_goal_deadlines(s, now)

(***************************************************************************)
(* Reporting queries (utils/database.py).  Day 1 is the first of a         *)
(* January; the JOINed display columns are left out of the rows; every     *)
(* stored tags column is empty, as the model's records carry no tags.      *)
(***************************************************************************)

\* WHERE date BETWEEN ? AND ?
InRange(s, start_date, end_date) ==
  { i \in DOMAIN s.transactions :
      start_date <= s.transactions[i].date /\ s.transactions[i].date <= end_date }

\* The rows of ids of one transaction_type.
OfType(s, ids, type) == { i \in ids : s.transactions[i].transaction_type = type }

\* get_income_vs_expense with a Transfer counted as an Expense.
get_income_vs_expense_transfers(s, start_date, end_date) ==
  LET rows == InRange(s, start_date, end_date)
      row == IF rows = {} THEN <<None, None>>
             ELSE <<SumAmount(s, OfType(s, rows, "Income")),
                    SumAmount(s, rows \ OfType(s, rows, "Income"))>>
  IN [income |-> IF row[1] # 0 THEN row[1] ELSE 0,
      expense |-> IF row[2] # 0 THEN row[2] ELSE 0]

\* SUM(CASE WHEN transaction_type = ... THEN amount ELSE 0 END): NULL over no
\* row of the range; row[k] if row[k] else 0.
get_income_vs_expense(s, start_date, end_date) ==
  LET rows == InRange(s, start_date, end_date)
      row == IF rows = {} THEN <<None, None>>
             ELSE <<SumAmount(s, OfType(s, rows, "Income")),
                    SumAmount(s, OfType(s, rows, "Expense"))>>
  IN [income |-> IF row[1] # 0 THEN row[1] ELSE 0,
      expense |-> IF row[2] # 0 THEN row[2] ELSE 0]

\* JOIN categories c ON t.category_id = c.id ... GROUP BY c.id ORDER BY total DESC
get_expense_by_category(s, start_date, end_date) ==
  LET rows == { i \in OfType(s, InRange(s, start_date, end_date), "Expense") :
                  s.transactions[i].category_id \in DOMAIN s.categories }
      groups == { s.transactions[i].category_id : i \in rows }
      total == [c \in groups |-> SumAmount(s, { i \in rows : s.transactions[i].category_id = c })]
      ids == OrderedBy(groups, [c \in groups |-> <<-total[c], c>>])
  IN [k \in 1 .. Len(ids) |-> [name |-> s.categories[ids[k]].name, total |-> total[ids[k]]]]

\* strftime('%Y-%m', date): the month of a day of the first two months.
MonthOf(date) == IF date <= 31 THEN 1 ELSE 2

\* date('now', '-N months'), for N of 0 and 1 and a day of January.
DateMonthsBefore(day, months) == day - 31 * months

get_monthly_trend(s, day, months) ==
  LET rows == { i \in DOMAIN s.transactions :
                  s.transactions[i].date >= DateMonthsBefore(day, months) }
      groups == { MonthOf(s.transactions[i].date) : i \in rows }
      ids == OrderedBy(groups, [m \in groups |-> <<m, m>>])
      Of(m) == { i \in rows : MonthOf(s.transactions[i].date) = m }
  IN [k \in 1 .. Len(ids) |->
        [month |-> ids[k], income |-> SumAmount(s, OfType(s, Of(ids[k]), "Income")),
         expense |-> SumAmount(s, OfType(s, Of(ids[k]), "Expense"))]]

\* text LIKE '%query%', for the texts and the queries of the model.
Like(text, query) ==
  \/ text = "rent" /\ query \in {"r", "re", "ren", "rent", "e", "en", "ent", "n", "nt", "t"}
  \/ text = "salary" /\ query \in {"sal", "salary", "ary"}

\* The WHERE clause search_transactions builds: a filter that is empty or
\* None is left out.
search_transactions(s, query, filters) ==
  LET Found(i) ==
        LET t == s.transactions[i] IN
        /\ query # "" => Like(t.description, query)
        /\ filters.transaction_type # "" => t.transaction_type = filters.transaction_type
        /\ filters.category_id # None => t.category_id = filters.category_id
        /\ filters.account_id # None => t.account_id = filters.account_id
        /\ filters.start_date # None => t.date >= filters.start_date
        /\ filters.end_date # None => t.date <= filters.end_date
      rows == { i \in DOMAIN s.transactions : Found(i) }
      ids == OrderedBy(rows, [i \in rows |-> <<-s.transactions[i].date, -i>>])
  IN [k \in 1 .. Len(ids) |-> [id |-> ids[k], row |-> s.transactions[ids[k]]]]

(***************************************************************************)
(* Calls and how they end.                                                 *)
(***************************************************************************)

\* A call ends after all of its commits, or a storage failure breaks it off
\* after k of them.
Outcomes(c) == 0 .. Len(c.commits)

Completed(c, k) == k = Len(c.commits)

\* The durable store after k commits of a call that started from s.
Left(s, c, k) == IF k = 0 THEN s ELSE c.commits[k]

Install(s) ==
  /\ accounts' = s.accounts
  /\ transactions' = s.transactions
  /\ recurring' = s.recurring
  /\ tx_seq' = s.tx_seq
  /\ categories' = s.categories
  /\ budgets' = s.budgets
  /\ goals' = s.goals
  /\ debts' = s.debts
  /\ settings' = s.settings
  /\ sqlite_sequence' = s.sqlite_sequence

BalanceInRange(s) ==
  \A a \in DOMAIN s.accounts :
    s.accounts[a].current_balance \in
      (s.accounts[a].initial_balance - MaxBalance) .. (s.accounts[a].initial_balance + MaxBalance)

Called(op, status, arg, result, rows) ==
  [op |-> op, status |-> status, arg |-> arg, result |-> result, rows |-> rows]

Status(c, k) == IF Completed(c, k) THEN "ok" ELSE "failed"

\* No call of the store or the engine was the last step.
NoCall == Called("", "ok", None, None, <<>>)

\* Inputs of the transaction calls: valid Expense/Income/Transfer records,
\* and records the store's contract excludes (negative amount, no account,
\* Transfer without destination).
AccountIds == {1, 2}

\* initial_balance of account 1 (the seeded Cash account) and of account 2.
InitialBalance == <<0, 10>>

TxInputs ==
  { Transaction(None, "Expense", 1, None, None, 1, None, today, "", None),
    Transaction(None, "Expense", 2, None, None, 2, None, today, "", None),
    Transaction(None, "Income", 2, None, None, 1, None, today, "", None),
    Transaction(None, "Income", 1, None, None, 2, None, today, "", None),
    Transaction(None, "Transfer", 1, None, None, 1, 2, today, "", None),
    Transaction(None, "Transfer", 2, None, None, 2, 1, today, "", None),
    Transaction(None, "Expense", -1, None, None, 1, None, today, "", None),
    Transaction(None, "Income", 1, None, None, None, None, today, "", None),
    Transaction(None, "Transfer", 1, None, None, 1, None, today, "", None) }

TxIds == 1 .. MaxTx

\* Expense and Income records that meet the store's contract.
LedgerInputs == { t \in TxInputs :
  t.transaction_type \in {"Expense", "Income"} /\ t.amount >= 0 /\ t.account_id # None }

\* The ways a call may end: any of them, or completion only.
Endings(c, failures) == IF failures THEN Outcomes(c) ELSE {Len(c.commits)}

AddTransactionOf(inputs, failures) ==
  /\ tx_seq < MaxTx
  /\ \E t \in inputs :
       LET c == add_transaction(Connect(Store), t) IN
       \E k \in Endings(c, failures) :
         /\ BalanceInRange(Left(Store, c, k))
         /\ Install(Left(Store, c, k))
         /\ last' = Called("add_transaction", Status(c, k), None,
                           IF Completed(c, k) THEN c.work.tx_seq ELSE None, <<>>)
  /\ UNCHANGED <<today, appVars>>

UpdateTransactionOf(inputs, failures) ==
  /\ \E t \in inputs, id \in TxIds :
       LET c == update_transaction(Connect(Store), [t EXCEPT !.id = id]) IN
       \E k \in Endings(c, failures) :
         /\ BalanceInRange(Left(Store, c, k))
         /\ Install(Left(Store, c, k))
         /\ last' = Called("update_transaction", Status(c, k), id, None, <<>>)
  /\ UNCHANGED <<today, appVars>>

DeleteTransactionOf(failures) ==
  /\ \E id \in TxIds :
       LET c == delete_transaction(Connect(Store), id) IN
       \E k \in Endings(c, failures) :
         /\ BalanceInRange(Left(Store, c, k))
         /\ Install(Left(Store, c, k))
         /\ last' = Called("delete_transaction", Status(c, k), id, None, <<>>)
  /\ UNCHANGED <<today, appVars>>

AddTransaction == AddTransactionOf(TxInputs, TRUE)

UpdateTransaction == UpdateTransactionOf(TxInputs, TRUE)

DeleteTransaction == DeleteTransactionOf(TRUE)

\* The same calls on Expense/Income records only, every call completing.
LedgerAdd == AddTransactionOf(LedgerInputs, FALSE)

LedgerUpdate == UpdateTransactionOf(LedgerInputs, FALSE)

LedgerDelete == DeleteTransactionOf(FALSE)

\* The store after construction and account set-up: no transaction yet,
\* every account's current_balance at its initial_balance.
InitStore ==
  LET s == add_account(Database(NoFile), Account("Bank", InitialBalance[2], InitialBalance[2])).work IN
  /\ accounts = s.accounts
  /\ transactions = <<>>
  /\ tx_seq = 0
  /\ categories = s.categories
  /\ settings = s.settings
  /\ sqlite_sequence = s.sqlite_sequence

\* No budget, goal or debt has been entered.
NoPlans ==
  /\ budgets = <<>>
  /\ goals = <<>>
  /\ debts = <<>>

Init ==
  /\ InitStore
  /\ NoPlans
  /\ recurring = <<>>
  /\ today = 1
  /\ running = FALSE
  /\ scheduled = FALSE
  /\ passes = <<>>
  /\ last = NoCall

Next ==
  \/ AddTransaction
  \/ UpdateTransaction
  \/ DeleteTransaction

Spec == Init /\ [][Next]_vars

LedgerNext ==
  \/ LedgerAdd
  \/ LedgerUpdate
  \/ LedgerDelete

SpecLedger == Init /\ [][LedgerNext]_vars

(***************************************************************************)
(* The application around the recurrence engine (main.py).  The Kivy main  *)
(* loop runs one callback at a time to completion; passes holds the        *)
(* activations of create_recurring_transaction_instances in progress.      *)
(***************************************************************************)

\* A pattern that is active, auto-created, Monthly, due on day 1.
BasePattern ==
  RecurringTransaction("Expense", 1, 1, 1, 1, "rent", "Monthly", 1, None, None, 1, TRUE, TRUE)

\* Patterns that differ in what decides whether they are due.
DuePatterns ==
  { [BasePattern EXCEPT !.active = ac, !.auto_create = au, !.next_due_date = d,
                        !.start_date = se, !.end_date = se] :
      ac \in BOOLEAN, au \in BOOLEAN, d \in {None, 1, 2}, se \in {None, 1} }

\* Patterns that differ in frequency and interval.
FrequencyPatterns ==
  { [BasePattern EXCEPT !.frequency = f, !.custom_interval = n] :
      f \in {"Daily", "Weekly", "Monthly", "Yearly", "Custom"}, n \in {1, 2} }

\* Patterns that differ in what they create.
TemplatePatterns ==
  { [BasePattern EXCEPT !.transaction_type = ty, !.account_id = ac, !.amount = 2,
                        !.category_id = None, !.description = ""] :
      ty \in Types, ac \in {None, 1, 2} }

PatternInputs == DuePatterns \cup FrequencyPatterns \cup TemplatePatterns

\* The second pattern of every table: a weekly Income on account 2, due on day 2.
SalaryPattern ==
  RecurringTransaction("Income", 2, 2, None, 2, "salary", "Weekly", 1, 1, None, 2, TRUE, TRUE)

\* MoneyManagerApp.build: the store is opened and the recurring check is
\* scheduled once.
build ==
  /\ ~running
  /\ running' = TRUE
  /\ scheduled' = TRUE
  /\ passes' = <<>>
  /\ last' = NoCall
  /\ UNCHANGED <<storeVars, today>>

\* MoneyManagerApp.on_stop
on_stop ==
  /\ running /\ passes = <<>>
  /\ running' = FALSE
  /\ scheduled' = FALSE
  /\ passes' = <<>>
  /\ last' = NoCall
  /\ UNCHANGED <<storeVars, today>>

\* The recurring check started from anywhere, whatever else is in progress.
StartPassReentrant ==
  /\ running
  /\ passes' = Append(passes, Frame(check_recurring_transactions(Store, today)))
  /\ last' = Called("create_recurring_transaction_instances", "started", None, None, <<>>)
  /\ UNCHANGED <<storeVars, today, running, scheduled>>

\* The scheduled callback MoneyManagerApp.check_recurring_transactions is
\* dispatched by the idle main loop and enters
\* create_recurring_transaction_instances.
StartPass ==
  /\ running /\ scheduled /\ passes = <<>>
  /\ scheduled' = FALSE
  /\ passes' = <<Frame(check_recurring_transactions(Store, today))>>
  /\ last' = Called("create_recurring_transaction_instances", "started", None, None, <<>>)
  /\ UNCHANGED <<storeVars, today, running>>

\* One iteration of the loop; a storage failure ends the process.
PassStep ==
  \E f \in DOMAIN passes :
    LET fr == passes[f] IN
    /\ fr.i <= Len(fr.due_transactions)
    /\ tx_seq < MaxInstances
    /\ LET rec == fr.due_transactions[fr.i]
           c == Materialize(Connect(Store), rec, today)
       IN \E k \in Outcomes(c) :
            /\ Install(Left(Store, c, k))
            /\ IF Completed(c, k)
                 THEN /\ passes' = [passes EXCEPT ![f] = [fr EXCEPT !.i = @ + 1, !.created_count = @ + 1]]
                      /\ UNCHANGED <<running, scheduled>>
                      /\ last' = Called("create_recurring_transaction_instances", "iterated",
                                        rec.id, None, <<>>)
                 ELSE /\ passes' = <<>>
                      /\ running' = FALSE
                      /\ scheduled' = FALSE
                      /\ last' = Called("create_recurring_transaction_instances", "failed",
                                        rec.id, None, <<>>)
    /\ UNCHANGED today

\* The loop is over: created_count is returned.
PassReturn ==
  \E f \in DOMAIN passes :
    LET fr == passes[f] IN
    /\ fr.i > Len(fr.due_transactions)
    /\ passes' = SubSeq(passes, 1, f - 1) \o SubSeq(passes, f + 1, Len(passes))
    /\ last' = Called("create_recurring_transaction_instances", "ok", None, fr.created_count, <<>>)
    /\ UNCHANGED <<storeVars, today, running, scheduled>>

\* ReminderManager.check_recurring_transactions called for the notification
\* list.
CheckRecurring ==
  /\ running /\ passes = <<>>
  /\ last' = Called("check_recurring_transactions", "ok", None, None,
                    check_recurring_transactions(Store, today))
  /\ UNCHANGED <<storeVars, today, appVars>>

\* Midnight passes.
NextDay ==
  /\ today < MaxDay
  /\ today' = today + 1
  /\ last' = NoCall
  /\ UNCHANGED <<storeVars, appVars>>

InitRecurring ==
  /\ InitStore
  /\ NoPlans
  /\ \E p \in PatternInputs : recurring = <<p, SalaryPattern>>
  /\ today = 1
  /\ running = FALSE
  /\ scheduled = FALSE
  /\ passes = <<>>
  /\ last = NoCall

NextRecurring ==
  \/ build
  \/ on_stop
  \/ StartPass
  \/ PassStep
  \/ PassReturn
  \/ CheckRecurring
  \/ NextDay

SpecRecurring == InitRecurring /\ [][NextRecurring]_vars

\* create_recurring_transaction_instances called and returning: the rows it
\* read as due and the count it returns.
MaterializeDue ==
  LET due == check_recurring_transactions(Store, today)
      c == create_recurring_transaction_instances(Connect(Store), today)
  IN /\ tx_seq + Len(due) <= MaxInstances
     /\ Install(c.work)
     /\ last' = Called("create_recurring_transaction_instances", "ok", None, Len(due), due)
     /\ UNCHANGED <<today, appVars>>

\* The engine called again and again, every call completing.
NextPasses ==
  \/ MaterializeDue
  \/ NextDay

SpecPasses == InitRecurring /\ [][NextPasses]_vars

(***************************************************************************)
(* Spending and budgets: transactions with a category and a date of the    *)
(* user's choice are recorded, and budgets are recomputed.                 *)
(***************************************************************************)

\* Transactions of categories 1 and 2 dated day 1, 2 and 3, on account 1.
BudgetTxInputs ==
  { Transaction(None, "Expense", 1, 1, None, 1, None, 1, "", None),
    Transaction(None, "Expense", 2, 1, None, 1, None, 2, "", None),
    Transaction(None, "Expense", 1, 1, None, 1, None, 3, "", None),
    Transaction(None, "Income", 2, 1, None, 1, None, 2, "", None),
    Transaction(None, "Transfer", 1, 1, None, 1, 2, 2, "", None),
    Transaction(None, "Expense", 1, 2, None, 1, None, 2, "", None) }

\* Two budgets of category 1 with periods of their own (the second with a
\* spent figure of an earlier recomputation) and one budget of category 2.
BudgetRows ==
  << Budget(1, 4, "Monthly", 1, 2, 80, 0),
     Budget(1, 2, "Custom", 3, 3, 50, 5),
     Budget(2, 0, "Weekly", 1, 3, 80, 0) >>

\* The (category_id, period_start, period_end) a recomputation is asked for.
RecomputeInputs ==
  { [category_id |-> c, period_start |-> p[1], period_end |-> p[2]] :
      c \in {None, 1, 2}, p \in {<<1, 2>>, <<2, 2>>, <<2, 3>>} }

\* add_transaction of one of inputs, the call completing.
RecordOf(inputs) ==
  /\ tx_seq < MaxLedger
  /\ \E t \in inputs :
       LET c == add_transaction(Connect(Store), t) IN
       /\ BalanceInRange(c.work)
       /\ Install(c.work)
       /\ last' = Called("add_transaction", "ok", None, c.work.tx_seq, <<>>)
  /\ UNCHANGED <<today, appVars>>

RecordSpending == RecordOf(BudgetTxInputs)

UpdateBudgetSpent ==
  /\ \E in \in RecomputeInputs :
       LET c == update_budget_spent(Connect(Store), in.category_id, in.period_start, in.period_end) IN
       /\ Install(c.work)
       /\ last' = Called("update_budget_spent", "ok", None, None, <<in>>)
  /\ UNCHANGED <<today, appVars>>

InitBudget ==
  /\ InitStore
  /\ budgets = BudgetRows
  /\ goals = <<>>
  /\ debts = <<>>
  /\ recurring = <<>>
  /\ today = 1
  /\ running = FALSE
  /\ scheduled = FALSE
  /\ passes = <<>>
  /\ last = NoCall

NextBudget ==
  \/ RecordSpending
  \/ UpdateBudgetSpent

SpecBudget == InitBudget /\ [][NextBudget]_vars

(***************************************************************************)
(* The lifetime of a store file: it is constructed by every process that   *)
(* opens it, and between constructions the user deletes and adds accounts, *)
(* deletes categories (one by one, in key order) and changes settings.     *)
(***************************************************************************)

\* The number of categories one seeding inserts.
SeedSize == Len(expense_categories) + Len(income_categories)

\* A Database object exists: some construction has completed (every
\* construction leaves the default settings).
Constructed == DOMAIN settings # {}

\* Database(db_path): arg tells whether the file was new.
OpenDatabase ==
  LET c == Database(Store) IN
  /\ c.work.sqlite_sequence.categories <= SeedSize * MaxSeedings
  /\ c.work.sqlite_sequence.accounts <= MaxAccounts
  /\ Install(c.work)
  /\ last' = Called("Database", "ok", IF Store = NoFile THEN 1 ELSE 0, None, <<>>)
  /\ UNCHANGED <<today, appVars>>

AddAccount ==
  /\ Constructed
  /\ sqlite_sequence.accounts < MaxAccounts
  /\ Install(add_account(Connect(Store), Account("Bank", 10, 10)).work)
  /\ last' = Called("add_account", "ok", None, sqlite_sequence.accounts + 1, <<>>)
  /\ UNCHANGED <<today, appVars>>

DeleteAccount ==
  /\ Constructed
  /\ \E id \in DOMAIN accounts :
       /\ Install(delete_account(Connect(Store), id).work)
       /\ last' = Called("delete_account", "ok", id, None, <<>>)
  /\ UNCHANGED <<today, appVars>>

DeleteCategory ==
  /\ Constructed
  /\ \E id \in DOMAIN categories :
       /\ \A other \in DOMAIN categories : id <= other
       /\ Install(delete_category(Connect(Store), id).work)
       /\ last' = Called("delete_category", "ok", id, None, <<>>)
  /\ UNCHANGED <<today, appVars>>

\* The settings a user changes: the theme, and a key of no default.
SettingInputs == { [key |-> "theme", value |-> "Dark"], [key |-> "last_backup", value |-> "never"] }

SetSetting ==
  /\ Constructed
  /\ \E in \in SettingInputs :
       /\ Install(set_setting(Connect(Store), in.key, in.value).work)
       /\ last' = Called("set_setting", "ok", None, None, <<in>>)
  /\ UNCHANGED <<today, appVars>>

\* get_setting of a default key, of a key of no default, and of the empty PIN.
GetSetting ==
  /\ Constructed
  /\ \E key \in {"theme", "last_backup", "pin_code"} :
       last' = Called("get_setting", "ok", None, None,
                      <<[key |-> key, value |-> get_setting(Store, key)]>>)
  /\ UNCHANGED <<storeVars, today, appVars>>

InitLifetime ==
  /\ accounts = NoFile.accounts
  /\ transactions = NoFile.transactions
  /\ recurring = NoFile.recurring
  /\ tx_seq = NoFile.tx_seq
  /\ categories = NoFile.categories
  /\ budgets = NoFile.budgets
  /\ goals = NoFile.goals
  /\ debts = NoFile.debts
  /\ settings = NoFile.settings
  /\ sqlite_sequence = NoFile.sqlite_sequence
  /\ today = 1
  /\ running = FALSE
  /\ scheduled = FALSE
  /\ passes = <<>>
  /\ last = NoCall

NextLifetime ==
  \/ OpenDatabase
  \/ AddAccount
  \/ DeleteAccount
  \/ DeleteCategory
  \/ SetSetting
  \/ GetSetting

SpecLifetime == InitLifetime /\ [][NextLifetime]_vars

(***************************************************************************)
(* The reminder engine at work on budgets, debts and goals.                *)
(***************************************************************************)

\* The time of day of datetime.now(): midnight sharp, or later.
TimesOfDay == {0, 1}

\* frequency values: the five of the model class, and one that is none of them.
Frequencies == {"Daily", "Weekly", "Monthly", "Yearly", "Custom", "Fortnightly"}

\* Budgets at, below and above their alert threshold, and without a ceiling.
BudgetTables ==
  { << Budget(1, amount, "Monthly", 1, 31, alert_percentage, spent),
       Budget(2, 4, "Monthly", 1, 31, 80, 5) >> :
      amount \in {0, 4}, spent \in {0, 3, 4}, alert_percentage \in {0, 75, 80, 100} }

\* Debts due today, tomorrow, and seven and eight days after days 1 and 2.
DebtTables ==
  { << Debt("Borrowed", "Ann", 5, 2, 1, due_date, settled),
       Debt("Lent", "Bob", 3, 0, 1, 40, FALSE) >> :
      due_date \in {None, 1, 2, 8, 9, 10}, settled \in BOOLEAN }

\* Goals with a deadline thirty and thirty-one days after days 1 and 2.
GoalTables ==
  { << Goal("Car", target_amount, current_amount, deadline, completed) >> :
      target_amount \in {0, 2}, current_amount \in {1, 2},
      deadline \in {None, 1, 31, 32, 33}, completed \in BOOLEAN }

\* The tables the engine is run on: one of them varies at a time.
ReminderScenarios ==
  { [budgets |-> b, debts |-> << Debt("Borrowed", "Ann", 5, 2, 1, 2, FALSE) >>,
     goals |-> << Goal("Car", 2, 1, 31, FALSE) >>] : b \in BudgetTables }
  \cup { [budgets |-> BudgetRows, debts |-> d, goals |-> << Goal("Car", 2, 1, 31, FALSE) >>] :
           d \in DebtTables }
  \cup { [budgets |-> BudgetRows, debts |-> << Debt("Borrowed", "Ann", 5, 2, 1, 2, FALSE) >>,
          goals |-> g] : g \in GoalTables }

CalculateNextDueDate ==
  /\ \E current_date \in 1 .. MaxDay, frequency \in Frequencies, interval \in 1 .. MaxInterval :
       last' = Called("calculate_next_due_date", "ok", None,
                      calculate_next_due_date(current_date, frequency, interval),
                      <<[current_date |-> current_date, frequency |-> frequency,
                         interval |-> interval]>>)
  /\ UNCHANGED <<storeVars, today, appVars>>

CheckBudgetAlerts ==
  /\ last' = Called("check_budget_alerts", "ok", None, None, check_budget_alerts(Store))
  /\ UNCHANGED <<storeVars, today, appVars>>

\* arg is the time of day of the call.
CheckDebtDueDates ==
  /\ \E time \in TimesOfDay :
       last' = Called("check_debt_due_dates", "ok", time, None,
                      check_debt_due_dates(Store, [day |-> today, time |-> time]))
  /\ UNCHANGED <<storeVars, today, appVars>>

CheckGoalDeadlines ==
  /\ \E time \in TimesOfDay :
       last' = Called("check_goal_deadlines", "ok", time, None,
                      check_goal_deadlines(Store, [day |-> today, time |-> time]))
  /\ UNCHANGED <<storeVars, today, appVars>>

InitReminders ==
  /\ InitStore
  /\ \E sc \in ReminderScenarios :
       budgets = sc.budgets /\ debts = sc.debts /\ goals = sc.goals
  /\ recurring = <<>>
  /\ today = 1
  /\ running = FALSE
  /\ scheduled = FALSE
  /\ passes = <<>>
  /\ last = NoCall

NextReminders ==
  \/ CalculateNextDueDate
  \/ CheckBudgetAlerts
  \/ CheckDebtDueDates
  \/ CheckGoalDeadlines
  \/ NextDay

SpecReminders == InitReminders /\ [][NextReminders]_vars

(***************************************************************************)
(* The reminder checks and the reporting queries on a store with           *)
(* transactions, patterns, budgets, a debt and a goal.                     *)
(***************************************************************************)

\* The transactions of the budgets, and an Expense of no category described
\* as rent.
ReportTxInputs ==
  BudgetTxInputs \cup { Transaction(None, "Expense", 1, None, None, 1, None, 2, "rent", None) }

\* The (start_date, end_date) of a report.
ReportRanges == { <<1, 2>>, <<2, 2>>, <<3, 3>> }

NoFilters ==
  [transaction_type |-> "", category_id |-> None, account_id |-> None,
   start_date |-> None, end_date |-> None]

SearchInputs ==
  { [query |-> q, filters |-> f] :
      q \in {"", "ren", "x"},
      f \in { NoFilters,
               [NoFilters EXCEPT !.transaction_type = "Expense", !.category_id = 1, !.start_date = 2],
               [NoFilters EXCEPT !.account_id = 1, !.end_date = 1] } }

RecordTransaction == RecordOf(ReportTxInputs)

\* check_recurring_transactions called by itself.
CheckRecurringDue ==
  /\ last' = Called("check_recurring_transactions", "ok", None, None,
                    check_recurring_transactions(Store, today))
  /\ UNCHANGED <<storeVars, today, appVars>>

\* get_all_notifications running the materialization instead of the check.
GetAllNotificationsMaterializing ==
  /\ tx_seq < MaxLedger
  /\ \E time \in TimesOfDay :
       /\ Install(create_recurring_transaction_instances(Connect(Store), today).work)
       /\ last' = Called("get_all_notifications", "ok", time, None,
                         get_all_notifications(Store, [day |-> today, time |-> time]))
  /\ UNCHANGED <<today, appVars>>

GetAllNotifications ==
  /\ \E time \in TimesOfDay :
       last' = Called("get_all_notifications", "ok", time, None,
                      get_all_notifications(Store, [day |-> today, time |-> time]))
  /\ UNCHANGED <<storeVars, today, appVars>>

GetExpenseByCategory ==
  /\ \E range \in ReportRanges :
       last' = Called("get_expense_by_category", "ok", None, None,
                      <<[start_date |-> range[1], end_date |-> range[2]]>>
                        \o get_expense_by_category(Store, range[1], range[2]))
  /\ UNCHANGED <<storeVars, today, appVars>>

GetIncomeVsExpense ==
  /\ \E range \in ReportRanges :
       last' = Called("get_income_vs_expense", "ok", None, None,
                      <<[start_date |-> range[1], end_date |-> range[2]],
                        get_income_vs_expense(Store, range[1], range[2])>>)
  /\ UNCHANGED <<storeVars, today, appVars>>

\* arg is months.
GetMonthlyTrend ==
  /\ \E months \in {0, 1} :
       last' = Called("get_monthly_trend", "ok", months, None,
                      get_monthly_trend(Store, today, months))
  /\ UNCHANGED <<storeVars, today, appVars>>

SearchTransactions ==
  /\ \E in \in SearchInputs :
       last' = Called("search_transactions", "ok", None, None,
                      <<in>> \o search_transactions(Store, in.query, in.filters))
  /\ UNCHANGED <<storeVars, today, appVars>>

InitReadOnly ==
  /\ InitStore
  /\ budgets = BudgetRows
  /\ debts = << Debt("Borrowed", "Ann", 5, 2, 1, 2, FALSE) >>
  /\ goals = << Goal("Car", 2, 1, 31, FALSE) >>
  /\ recurring = <<BasePattern, SalaryPattern>>
  /\ today = 1
  /\ running = FALSE
  /\ scheduled = FALSE
  /\ passes = <<>>
  /\ last = NoCall

NextReadOnly ==
  \/ RecordTransaction
  \/ CheckRecurringDue
  \/ CheckBudgetAlerts
  \/ CheckDebtDueDates
  \/ CheckGoalDeadlines
  \/ GetAllNotifications
  \/ GetExpenseByCategory
  \/ GetIncomeVsExpense
  \/ GetMonthlyTrend
  \/ SearchTransactions
  \/ NextDay

SpecReadOnly == InitReadOnly /\ [][NextReadOnly]_vars

(***************************************************************************)
(* The account form: accounts are added and edited while Expense and       *)
(* Income transactions are recorded against them.                          *)
(***************************************************************************)

\* What the form is saved with: the account edited (None for a new one), the
\* name (empty, or given) and the initial balance (None: the pre-filled
\* value of the account edited is left as it is).
AccountFormInputs ==
  { [edit_account |-> e, name |-> n, initial_balance |-> b] :
      e \in {None, 1, 2}, n \in {"", "Wallet"}, b \in {None, 5} }

\* arg is the account edited.
SaveAccount ==
  /\ \E in \in AccountFormInputs :
       LET initial_balance == IF in.initial_balance = None /\ in.edit_account \in DOMAIN accounts
                                THEN accounts[in.edit_account].initial_balance
                                ELSE in.initial_balance
           c == save_account(Connect(Store), in.edit_account, in.name, initial_balance)
       IN /\ c.work.sqlite_sequence.accounts <= MaxAccounts
          /\ Install(c.work)
          /\ last' = Called("save_account", "ok", in.edit_account, None, <<in>>)
  /\ UNCHANGED <<today, appVars>>

NextAccounts ==
  \/ LedgerAdd
  \/ SaveAccount
  \/ NextDay

SpecAccounts == Init /\ [][NextAccounts]_vars

(***************************************************************************)
(* Spending between recomputations: transactions are recorded, revised,    *)
(* removed and materialized from patterns while budgets are recomputed and *)
(* their alerts read.                                                      *)
(***************************************************************************)

\* An Expense of each budgeted category and an Income.
SpendingInputs ==
  { Transaction(None, "Expense", 2, 1, None, 1, None, 2, "", None),
    Transaction(None, "Expense", 1, 2, None, 1, None, 2, "", None),
    Transaction(None, "Income", 2, 1, None, 1, None, 2, "", None) }

RecordOneSpending == AddTransactionOf(SpendingInputs, FALSE)

ReviseSpending == UpdateTransactionOf(SpendingInputs, FALSE)

RemoveSpending == DeleteTransactionOf(FALSE)

InitSpending ==
  /\ InitStore
  /\ budgets = BudgetRows
  /\ goals = <<>>
  /\ debts = <<>>
  /\ recurring = <<BasePattern>>
  /\ today = 1
  /\ running = FALSE
  /\ scheduled = FALSE
  /\ passes = <<>>
  /\ last = NoCall

NextSpending ==
  \/ RecordOneSpending
  \/ ReviseSpending
  \/ RemoveSpending
  \/ MaterializeDue
  \/ UpdateBudgetSpent
  \/ CheckBudgetAlerts

SpecSpending == InitSpending /\ [][NextSpending]_vars

(***************************************************************************)
(* Transfers: submitted by the user between two accounts, and created by   *)
(* the engine from patterns.                                               *)
(***************************************************************************)

\* Transfers from one stored account to another.
TransferInputs ==
  { t \in TxInputs : t.transaction_type = "Transfer" /\ t.account_id # None /\ t.to_account_id # None }

RecordTransfer == AddTransactionOf(TransferInputs, FALSE)

NextTransfers ==
  \/ RecordTransfer
  \/ MaterializeDue
  \/ NextDay

SpecTransfers == InitRecurring /\ [][NextTransfers]_vars

(***************************************************************************)
(* Accounts deleted under their transactions: Expense and Income           *)
(* transactions are recorded, revised and removed while accounts are       *)
(* deleted and added and the store is reopened.                            *)
(***************************************************************************)

NextDangling ==
  \/ LedgerAdd
  \/ LedgerUpdate
  \/ LedgerDelete
  \/ DeleteAccount
  \/ AddAccount
  \/ OpenDatabase

SpecDangling == Init /\ [][NextDangling]_vars

(***************************************************************************)
(* Transactions created from patterns and revised by the user.             *)
(***************************************************************************)

\* The records a materialized transaction is revised with: they carry no
\* recurring_id (as the transaction form builds them) or that of pattern 2.
ReviseInputs ==
  { Transaction(None, type, 2, None, None, account, None, today, "revised", recurring_id) :
      type \in {"Expense", "Income"}, account \in AccountIds, recurring_id \in {None, 2} }

ReviseInstance == UpdateTransactionOf(ReviseInputs, TRUE)

InitRevise ==
  /\ InitStore
  /\ NoPlans
  /\ recurring = <<BasePattern, SalaryPattern>>
  /\ today = 1
  /\ running = FALSE
  /\ scheduled = FALSE
  /\ passes = <<>>
  /\ last = NoCall

NextRevise ==
  \/ MaterializeDue
  \/ ReviseInstance
  \/ NextDay

SpecRevise == InitRevise /\ [][NextRevise]_vars

(***************************************************************************)
(* The entity classes: constructor, to_dict and from_dict of each.  An     *)
(* entity is the record of its attributes, a dictionary the record of its  *)
(* keys.  Text is a string ("" is the empty text), an optional id or an    *)
(* optional date string is None or an integer, a flag is a BOOLEAN.  The   *)
(* date of a Transaction is a Python value of one of three kinds: None, a  *)
(* datetime (day and time of day) or a "%Y-%m-%d" string (day only).       *)
(***************************************************************************)
NoDate == [kind |-> "None", day |-> 0, time |-> 0]

DateTime(day, time) == [kind |-> "datetime", day |-> day, time |-> time]

DateStr(day) == [kind |-> "str", day |-> day, time |-> 0]

\* datetime.strftime("%Y-%m-%d"): the time of day is not printed.
strftime_date(date) == DateStr(date.day)

\* datetime.strptime(s, "%Y-%m-%d"): a datetime at midnight.
strptime_date(date_str) == DateTime(date_str.day, 0)

\* datetime.strftime("%H:%M") of the two times of day.
strftime_time(now) == IF now.time = 0 THEN "00:00" ELSE "09:30"

\* dict.get(key, default).
Get(data, key, default) == IF key \in DOMAIN data THEN data[key] ELSE default

\* Transaction.__init__: a missing date is the clock's datetime, a missing or
\* empty time is the clock's "%H:%M".
Transaction_init(args, now) ==
  [id               |-> args.transaction_id,
   transaction_type |-> args.transaction_type,
   amount           |-> args.amount,
   category_id      |-> args.category_id,
   subcategory_id   |-> args.subcategory_id,
   account_id       |-> args.account_id,
   to_account_id    |-> args.to_account_id,
   date             |-> IF args.date.kind = "None"
                          THEN DateTime(now.day, now.time) ELSE args.date,
   time             |-> IF args.time = "" THEN strftime_time(now) ELSE args.time,
   description      |-> args.description,
   payment_method   |-> args.payment_method,
   tags             |-> args.tags,
   receipt_path     |-> args.receipt_path,
   recurring_id     |-> args.recurring_id]

Transaction_to_dict(self) ==
  [self EXCEPT !.date = IF self.date.kind = "datetime"
                          THEN strftime_date(self.date) ELSE self.date]

Transaction_from_dict(data, now) ==
  LET date_str == Get(data, "date", NoDate)
      date == IF date_str.kind = "str" THEN strptime_date(date_str) ELSE date_str
  IN  Transaction_init(
        [transaction_id   |-> Get(data, "id", None),
         transaction_type |-> Get(data, "transaction_type", "Expense"),
         amount           |-> Get(data, "amount", 0),
         category_id      |-> Get(data, "category_id", None),
         subcategory_id   |-> Get(data, "subcategory_id", None),
         account_id       |-> Get(data, "account_id", None),
         to_account_id    |-> Get(data, "to_account_id", None),
         date             |-> date,
         time             |-> Get(data, "time", ""),
         description      |-> Get(data, "description", ""),
         payment_method   |-> Get(data, "payment_method", ""),
         tags             |-> Get(data, "tags", ""),
         receipt_path     |-> Get(data, "receipt_path", ""),
         recurring_id     |-> Get(data, "recurring_id", None)], now)

\* Account: every attribute is stored as passed, to_dict copies every
\* attribute under its own name, from_dict passes every key back.
Account_init(args) ==
  [id              |-> args.account_id,
   name            |-> args.name,
   account_type    |-> args.account_type,
   initial_balance |-> args.initial_balance,
   current_balance |-> args.current_balance,
   currency        |-> args.currency,
   icon            |-> args.icon,
   color           |-> args.color,
   is_credit_card  |-> args.is_credit_card,
   credit_limit    |-> args.credit_limit,
   due_date        |-> args.due_date,
   interest_rate   |-> args.interest_rate,
   notes           |-> args.notes]

Account_to_dict(self) ==
  [id              |-> self.id,
   name            |-> self.name,
   account_type    |-> self.account_type,
   initial_balance |-> self.initial_balance,
   current_balance |-> self.current_balance,
   currency        |-> self.currency,
   icon            |-> self.icon,
   color           |-> self.color,
   is_credit_card  |-> self.is_credit_card,
   credit_limit    |-> self.credit_limit,
   due_date        |-> self.due_date,
   interest_rate   |-> self.interest_rate,
   notes           |-> self.notes]

Account_from_dict(data) ==
  Account_init(
    [account_id      |-> Get(data, "id", None),
     name            |-> Get(data, "name", ""),
     account_type    |-> Get(data, "account_type", "Cash"),
     initial_balance |-> Get(data, "initial_balance", 0),
     current_balance |-> Get(data, "current_balance", 0),
     currency        |-> Get(data, "currency", "USD"),
     icon            |-> Get(data, "icon", "wallet"),
     color           |-> Get(data, "color", "#2196F3"),
     is_credit_card  |-> Get(data, "is_credit_card", FALSE),
     credit_limit    |-> Get(data, "credit_limit", 0),
     due_date        |-> Get(data, "due_date", None),
     interest_rate   |-> Get(data, "interest_rate", 0),
     notes           |-> Get(data, "notes", "")])

Category_init(args) ==
  [id            |-> args.category_id,
   name          |-> args.name,
   category_type |-> args.category_type,
   icon          |-> args.icon,
   color         |-> args.color]

Category_to_dict(self) ==
  [id            |-> self.id,
   name          |-> self.name,
   category_type |-> self.category_type,
   icon          |-> self.icon,
   color         |-> self.color]

Category_from_dict(data) ==
  Category_init(
    [category_id   |-> Get(data, "id", None),
     name          |-> Get(data, "name", ""),
     category_type |-> Get(data, "category_type", "Expense"),
     icon          |-> Get(data, "icon", "tag"),
     color         |-> Get(data, "color", "#757575")])

Subcategory_init(args) ==
  [id          |-> args.subcategory_id,
   name        |-> args.name,
   category_id |-> args.category_id]

Subcategory_to_dict(self) ==
  [id          |-> self.id,
   name        |-> self.name,
   category_id |-> self.category_id]

Subcategory_from_dict(data) ==
  Subcategory_init(
    [subcategory_id |-> Get(data, "id", None),
     name           |-> Get(data, "name", ""),
     category_id    |-> Get(data, "category_id", None)])

Budget_init(args) ==
  [id               |-> args.budget_id,
   category_id      |-> args.category_id,
   amount           |-> args.amount,
   period           |-> args.period,
   start_date       |-> args.start_date,
   end_date         |-> args.end_date,
   alert_percentage |-> args.alert_percentage,
   spent            |-> args.spent]

Budget_to_dict(self) ==
  [id               |-> self.id,
   category_id      |-> self.category_id,
   amount           |-> self.amount,
   period           |-> self.period,
   start_date       |-> self.start_date,
   end_date         |-> self.end_date,
   alert_percentage |-> self.alert_percentage,
   spent            |-> self.spent]

Budget_from_dict(data) ==
  Budget_init(
    [budget_id        |-> Get(data, "id", None),
     category_id      |-> Get(data, "category_id", None),
     amount           |-> Get(data, "amount", 0),
     period           |-> Get(data, "period", "Monthly"),
     start_date       |-> Get(data, "start_date", None),
     end_date         |-> Get(data, "end_date", None),
     alert_percentage |-> Get(data, "alert_percentage", 80),
     spent            |-> Get(data, "spent", 0)])

Goal_init(args) ==
  [id             |-> args.goal_id,
   name           |-> args.name,
   target_amount  |-> args.target_amount,
   current_amount |-> args.current_amount,
   deadline       |-> args.deadline,
   icon           |-> args.icon,
   color          |-> args.color,
   notes          |-> args.notes,
   completed      |-> args.completed]

Goal_to_dict(self) ==
  [id             |-> self.id,
   name           |-> self.name,
   target_amount  |-> self.target_amount,
   current_amount |-> self.current_amount,
   deadline       |-> self.deadline,
   icon           |-> self.icon,
   color          |-> self.color,
   notes          |-> self.notes,
   completed      |-> self.completed]

Goal_from_dict(data) ==
  Goal_init(
    [goal_id        |-> Get(data, "id", None),
     name           |-> Get(data, "name", ""),
     target_amount  |-> Get(data, "target_amount", 0),
     current_amount |-> Get(data, "current_amount", 0),
     deadline       |-> Get(data, "deadline", None),
     icon           |-> Get(data, "icon", "flag"),
     color          |-> Get(data, "color", "#4CAF50"),
     notes          |-> Get(data, "notes", ""),
     completed      |-> Get(data, "completed", FALSE)])

Debt_init(args) ==
  [id            |-> args.debt_id,
   debt_type     |-> args.debt_type,
   person_name   |-> args.person_name,
   amount        |-> args.amount,
   amount_paid   |-> args.amount_paid,
   date          |-> args.date,
   due_date      |-> args.due_date,
   interest_rate |-> args.interest_rate,
   notes         |-> args.notes,
   settled       |-> args.settled]

Debt_to_dict(self) ==
  [id            |-> self.id,
   debt_type     |-> self.debt_type,
   person_name   |-> self.person_name,
   amount        |-> self.amount,
   amount_paid   |-> self.amount_paid,
   date          |-> self.date,
   due_date      |-> self.due_date,
   interest_rate |-> self.interest_rate,
   notes         |-> self.notes,
   settled       |-> self.settled]

Debt_from_dict(data) ==
  Debt_init(
    [debt_id       |-> Get(data, "id", None),
     debt_type     |-> Get(data, "debt_type", "Borrowed"),
     person_name   |-> Get(data, "person_name", ""),
     amount        |-> Get(data, "amount", 0),
     amount_paid   |-> Get(data, "amount_paid", 0),
     date          |-> Get(data, "date", None),
     due_date      |-> Get(data, "due_date", None),
     interest_rate |-> Get(data, "interest_rate", 0),
     notes         |-> Get(data, "notes", ""),
     settled       |-> Get(data, "settled", FALSE)])

RecurringTransaction_init(args) ==
  [id               |-> args.recurring_id,
   transaction_type |-> args.transaction_type,
   amount           |-> args.amount,
   category_id      |-> args.category_id,
   subcategory_id   |-> args.subcategory_id,
   account_id       |-> args.account_id,
   description      |-> args.description,
   frequency        |-> args.frequency,
   custom_interval  |-> args.custom_interval,
   start_date       |-> args.start_date,
   end_date         |-> args.end_date,
   next_due_date    |-> args.next_due_date,
   auto_create      |-> args.auto_create,
   active           |-> args.active]

RecurringTransaction_to_dict(self) ==
  [id               |-> self.id,
   transaction_type |-> self.transaction_type,
   amount           |-> self.amount,
   category_id      |-> self.category_id,
   subcategory_id   |-> self.subcategory_id,
   account_id       |-> self.account_id,
   description      |-> self.description,
   frequency        |-> self.frequency,
   custom_interval  |-> self.custom_interval,
   start_date       |-> self.start_date,
   end_date         |-> self.end_date,
   next_due_date    |-> self.next_due_date,
   auto_create      |-> self.auto_create,
   active           |-> self.active]

RecurringTransaction_from_dict(data) ==
  RecurringTransaction_init(
    [recurring_id     |-> Get(data, "id", None),
     transaction_type |-> Get(data, "transaction_type", "Expense"),
     amount           |-> Get(data, "amount", 0),
     category_id      |-> Get(data, "category_id", None),
     subcategory_id   |-> Get(data, "subcategory_id", None),
     account_id       |-> Get(data, "account_id", None),
     description      |-> Get(data, "description", ""),
     frequency        |-> Get(data, "frequency", "Monthly"),
     custom_interval  |-> Get(data, "custom_interval", 1),
     start_date       |-> Get(data, "start_date", None),
     end_date         |-> Get(data, "end_date", None),
     next_due_date    |-> Get(data, "next_due_date", None),
     auto_create      |-> Get(data, "auto_create", TRUE),
     active           |-> Get(data, "active", TRUE)])

(***************************************************************************)
(* Round trips of the entities: an entity is constructed, written with     *)
(* to_dict and read back with from_dict.  rows is <<e, from_dict(to_dict(e))>>. *)
(***************************************************************************)
Days == 1..MaxDay

\* Keyword arguments of Transaction(...): the three types, a date of every
\* kind, a time given or not, texts empty or not.
TransactionArgs ==
  { [transaction_id |-> 1, transaction_type |-> type, amount |-> 5,
     category_id |-> 1, subcategory_id |-> None, account_id |-> 1,
     to_account_id |-> IF type = "Transfer" THEN 2 ELSE None,
     date |-> date, time |-> time, description |-> text,
     payment_method |-> text, tags |-> "", receipt_path |-> "",
     recurring_id |-> None] :
      type \in Types,
      date \in {NoDate} \cup {DateTime(d, t) : d \in Days, t \in TimesOfDay}
                        \cup {DateStr(d) : d \in Days},
      time \in {"", "18:45"},
      text \in {"", "rent"} }

AccountArgs ==
  { [account_id |-> id, name |-> name, account_type |-> "Bank",
     initial_balance |-> 0, current_balance |-> 10, currency |-> "USD",
     icon |-> "wallet", color |-> "#2196F3", is_credit_card |-> card,
     credit_limit |-> 0, due_date |-> due_date, interest_rate |-> 0,
     notes |-> notes] :
      id \in {None, 1}, name \in {"", "Bank"}, card \in BOOLEAN,
      due_date \in {None} \cup Days, notes \in {"", "joint"} }

CategoryArgs ==
  { [category_id |-> id, name |-> name, category_type |-> type,
     icon |-> icon, color |-> "#757575"] :
      id \in {None, 1}, name \in {"", "Shopping"},
      type \in {"Expense", "Income"}, icon \in {"", "tag"} }

SubcategoryArgs ==
  { [subcategory_id |-> id, name |-> name, category_id |-> category_id] :
      id \in {None, 1}, name \in {"", "Fuel"}, category_id \in {None, 1} }

BudgetArgs ==
  { [budget_id |-> 1, category_id |-> category_id, amount |-> amount,
     period |-> period, start_date |-> start, end_date |-> None,
     alert_percentage |-> 80, spent |-> 0] :
      category_id \in {None, 1}, amount \in {0, 5},
      period \in {"", "Monthly"}, start \in {None} \cup Days }

GoalArgs ==
  { [goal_id |-> 1, name |-> name, target_amount |-> 5, current_amount |-> 0,
     deadline |-> deadline, icon |-> "flag", color |-> "#4CAF50",
     notes |-> notes, completed |-> completed] :
      name \in {"", "Car"}, deadline \in {None} \cup Days,
      notes \in {"", "soon"}, completed \in BOOLEAN }

DebtArgs ==
  { [debt_id |-> 1, debt_type |-> type, person_name |-> name, amount |-> 5,
     amount_paid |-> 0, date |-> 1, due_date |-> due_date,
     interest_rate |-> 0, notes |-> "", settled |-> settled] :
      type \in {"Borrowed", "Lent"}, name \in {"", "Ann"},
      due_date \in {None} \cup Days, settled \in BOOLEAN }

RecurringTransactionArgs ==
  { [recurring_id |-> 1, transaction_type |-> "Expense", amount |-> 5,
     category_id |-> 1, subcategory_id |-> None, account_id |-> 1,
     description |-> text, frequency |-> frequency, custom_interval |-> 1,
     start_date |-> 1, end_date |-> end_date, next_due_date |-> 1,
     auto_create |-> auto_create, active |-> TRUE] :
      text \in {"", "rent"}, frequency \in {"Monthly", "Custom"},
      end_date \in {None} \cup Days, auto_create \in BOOLEAN }

\* The entity is constructed at one time of the day and read back at the same
\* or a later one.
RoundTripTransaction ==
  /\ \E args \in TransactionArgs, time \in TimesOfDay, later \in TimesOfDay :
       /\ time <= later
       /\ LET e == Transaction_init(args, [day |-> today, time |-> time])
              now == [day |-> today, time |-> later]
          IN  last' = Called("Transaction.round_trip", "ok", None, None,
                             <<e, Transaction_from_dict(Transaction_to_dict(e), now)>>)
  /\ UNCHANGED <<storeVars, today, appVars>>

RoundTripAccount ==
  /\ \E args \in AccountArgs :
       LET e == Account_init(args)
       IN  last' = Called("Account.round_trip", "ok", None, None,
                          <<e, Account_from_dict(Account_to_dict(e))>>)
  /\ UNCHANGED <<storeVars, today, appVars>>

RoundTripCategory ==
  /\ \E args \in CategoryArgs :
       LET e == Category_init(args)
       IN  last' = Called("Category.round_trip", "ok", None, None,
                          <<e, Category_from_dict(Category_to_dict(e))>>)
  /\ UNCHANGED <<storeVars, today, appVars>>

RoundTripSubcategory ==
  /\ \E args \in SubcategoryArgs :
       LET e == Subcategory_init(args)
       IN  last' = Called("Subcategory.round_trip", "ok", None, None,
                          <<e, Subcategory_from_dict(Subcategory_to_dict(e))>>)
  /\ UNCHANGED <<storeVars, today, appVars>>

RoundTripBudget ==
  /\ \E args \in BudgetArgs :
       LET e == Budget_init(args)
       IN  last' = Called("Budget.round_trip", "ok", None, None,
                          <<e, Budget_from_dict(Budget_to_dict(e))>>)
  /\ UNCHANGED <<storeVars, today, appVars>>

RoundTripGoal ==
  /\ \E args \in GoalArgs :
       LET e == Goal_init(args)
       IN  last' = Called("Goal.round_trip", "ok", None, None,
                          <<e, Goal_from_dict(Goal_to_dict(e))>>)
  /\ UNCHANGED <<storeVars, today, appVars>>

RoundTripDebt ==
  /\ \E args \in DebtArgs :
       LET e == Debt_init(args)
       IN  last' = Called("Debt.round_trip", "ok", None, None,
                          <<e, Debt_from_dict(Debt_to_dict(e))>>)
  /\ UNCHANGED <<storeVars, today, appVars>>

RoundTripRecurringTransaction ==
  /\ \E args \in RecurringTransactionArgs :
       LET e == RecurringTransaction_init(args)
       IN  last' = Called("RecurringTransaction.round_trip", "ok", None, None,
                          <<e, RecurringTransaction_from_dict(RecurringTransaction_to_dict(e))>>)
  /\ UNCHANGED <<storeVars, today, appVars>>

InitEntities == Init

NextEntities ==
  \/ RoundTripTransaction
  \/ RoundTripAccount
  \/ RoundTripCategory
  \/ RoundTripSubcategory
  \/ RoundTripBudget
  \/ RoundTripGoal
  \/ RoundTripDebt
  \/ RoundTripRecurringTransaction
  \/ NextDay

SpecEntities == InitEntities /\ [][NextEntities]_vars

(***************************************************************************)
(* Properties of the transaction calls.                                    *)
(***************************************************************************)

RECURSIVE SumOver(_, _, _)
\* The sum of f[i] over the ids i in S.
SumOver(f, S, acc) ==
  IF S = {} THEN acc
  ELSE LET i == CHOOSE x \in S : TRUE IN SumOver(f, S \ {i}, acc + f[i])

\* The signed effect of an Expense/Income row r on account a.
LedgerEffect(r, a) ==
  IF r.account_id # a THEN 0
  ELSE IF r.transaction_type = "Income" THEN r.amount
  ELSE IF r.transaction_type = "Expense" THEN -r.amount
  ELSE 0

\* The change a new row r makes to the balance of account a, by the contract
\* of add_transaction.
AddEffect(r, a) ==
  IF r.transaction_type = "Transfer"
    THEN (IF r.account_id = a THEN -r.amount ELSE 0) + (IF r.to_account_id = a THEN r.amount ELSE 0)
    ELSE LedgerEffect(r, a)

Balance(a) == accounts[a].current_balance

\* The step stored exactly one new row, with key id, and kept the others.
OneRowAdded(id) ==
  /\ id \notin DOMAIN transactions
  /\ DOMAIN transactions' = DOMAIN transactions \cup {id}
  /\ \A i \in DOMAIN transactions : transactions'[i] = transactions[i]

\* The step changed every balance by the new row's effect and nothing else
\* of the accounts.
BalancesMovedBy(r) ==
  /\ DOMAIN accounts' = DOMAIN accounts
  /\ \A a \in DOMAIN accounts :
       accounts'[a] = [accounts[a] EXCEPT !.current_balance = @ + AddEffect(r, a)]

\* C1: after every add/update/delete call on Expense/Income transactions,
\* each account's current_balance is its initial_balance plus the signed
\* effects (+amount Income, -amount Expense) of the stored transactions that
\* reference it.
C1_BalanceMatchesLedger ==
  \A a \in DOMAIN accounts :
    Balance(a) = accounts[a].initial_balance
                 + SumOver([i \in DOMAIN transactions |-> LedgerEffect(transactions[i], a)],
                           DOMAIN transactions, 0)

\* C2: a completed add_transaction stores exactly one new row; Expense
\* subtracts the amount from its account, Income adds it, Transfer subtracts
\* it from the source and adds it to the destination; no other balance moves.
C2_AddEffect ==
  [][ (last'.op = "add_transaction" /\ last'.status = "ok") =>
        /\ OneRowAdded(last'.result)
        /\ BalancesMovedBy(transactions'[last'.result]) ]_vars

C2_Witness ==
  /\ last.op = "add_transaction" /\ last.status = "ok"
  /\ transactions[last.result].transaction_type = "Transfer"
  /\ transactions[last.result].account_id = 1 /\ transactions[last.result].to_account_id = 2
  /\ Balance(1) = accounts[1].initial_balance - transactions[last.result].amount
  /\ Balance(2) = accounts[2].initial_balance + transactions[last.result].amount

\* C3: update_transaction with an id that matches no stored row is rejected
\* (NotFound) and changes no balance and no row; delete_transaction with such
\* an id changes no balance and no row.  The code has no NotFound result; what
\* is checked is that neither call changes the store.
C3_AbsentIdIsRejected ==
  [][ (last'.op \in {"update_transaction", "delete_transaction"}
       /\ last'.arg \notin DOMAIN transactions) =>
         UNCHANGED storeVars ]_vars

\* C4: add_transaction is atomic: whenever the call leaves the store (also
\* when a storage failure breaks it off), either nothing of it is stored, or
\* the new row and every one of its balance changes are.
C4_AddIsAtomic ==
  [][ last'.op = "add_transaction" =>
        \/ UNCHANGED storeVars
        \/ /\ OneRowAdded(tx_seq')
           /\ BalancesMovedBy(transactions'[tx_seq']) ]_vars

\* C5: an update_transaction or delete_transaction of a stored transaction
\* that a storage failure breaks off leaves the store as it was before the
\* call (in particular, never the old balance effect reversed with the old
\* row still stored).
C5_FailedCallChangesNothing ==
  [][ ( /\ last'.op \in {"update_transaction", "delete_transaction"}
        /\ last'.status = "failed"
        /\ last'.arg \in DOMAIN transactions ) =>
          UNCHANGED storeVars ]_vars

\* C6: a completed update_transaction of a stored Transfer to new Transfer
\* values changes no account balance; a completed delete_transaction of a
\* stored Transfer removes the row and changes no account balance.
C6_TransferNeverRetouched ==
  [][ /\ ( /\ last'.op = "update_transaction" /\ last'.status = "ok"
           /\ last'.arg \in DOMAIN transactions
           /\ transactions[last'.arg].transaction_type = "Transfer"
           /\ transactions'[last'.arg].transaction_type = "Transfer" ) =>
             accounts' = accounts
      /\ ( /\ last'.op = "delete_transaction" /\ last'.status = "ok"
           /\ last'.arg \in DOMAIN transactions
           /\ transactions[last'.arg].transaction_type = "Transfer" ) =>
             /\ accounts' = accounts
             /\ DOMAIN transactions' = DOMAIN transactions \ {last'.arg}
             /\ \A i \in DOMAIN transactions' : transactions'[i] = transactions[i] ]_vars

\* A Transfer of 1 from account 1 to account 2 was added and then updated to a
\* Transfer of 2 from account 2 to account 1: the balances still show the
\* first Transfer.
C6_Witness ==
  /\ last.op = "update_transaction" /\ last.status = "ok"
  /\ last.arg \in DOMAIN transactions
  /\ transactions[last.arg].transaction_type = "Transfer"
  /\ transactions[last.arg].amount = 2
  /\ transactions[last.arg].account_id = 2
  /\ Balance(1) = accounts[1].initial_balance - 1
  /\ Balance(2) = accounts[2].initial_balance + 1

\* C7: every stored transaction has amount >= 0, every stored Expense or
\* Income has an account, every stored Transfer has an account and a
\* to_account.
C7_RowsMeetContract ==
  \A i \in DOMAIN transactions :
    LET r == transactions[i] IN
    /\ r.amount >= 0
    /\ r.transaction_type \in {"Expense", "Income"} => r.account_id # None
    /\ r.transaction_type = "Transfer" => (r.account_id # None /\ r.to_account_id # None)

(***************************************************************************)
(* Properties of the recurrence engine.                                    *)
(***************************************************************************)

\* The patterns that are active, auto-created and have a next_due_date on or
\* before today.
DueIds ==
  { id \in DOMAIN recurring :
      /\ recurring[id].active
      /\ recurring[id].auto_create
      /\ recurring[id].next_due_date # None
      /\ recurring[id].next_due_date <= today }

\* The list names exactly the patterns of ids, each once.
ListsExactly(rows, ids) ==
  /\ { rows[k].id : k \in DOMAIN rows } = ids
  /\ Len(rows) = Cardinality(ids)

\* The number of days from one due date to the next.
PeriodDays(frequency, interval) ==
  CASE frequency = "Daily" -> interval
    [] frequency = "Weekly" -> 7 * interval
    [] frequency = "Monthly" -> 30 * interval
    [] frequency = "Yearly" -> 365 * interval
    [] OTHER -> interval

\* The row a due pattern is materialized as today.
InstanceRow(id) ==
  LET p == recurring[id] IN
  [transaction_type |-> p.transaction_type, amount |-> p.amount, category_id |-> p.category_id,
   subcategory_id |-> p.subcategory_id, account_id |-> p.account_id, to_account_id |-> None,
   date |-> today, description |-> p.description, recurring_id |-> id]

PassCalled(status) ==
  last'.op = "create_recurring_transaction_instances" /\ last'.status = status

\* C8: a pass of create_recurring_transaction_instances works on exactly the
\* due patterns; for each, in turn, it adds exactly one transaction carrying
\* the pattern's type, amount, category, subcategory, account and description
\* with recurring_id the pattern's id, moves the balances as add_transaction
\* does, and replaces the pattern's next_due_date by the next-date rule applied
\* to its previous value, changing no other pattern; it returns the number of
\* due patterns.
C8_PassMaterializesDuePatterns ==
  [][ /\ PassCalled("started") =>
           ListsExactly(passes'[Len(passes')].due_transactions, DueIds)
      /\ (PassCalled("iterated") /\ Len(passes) = 1) =>
           LET fr == passes[1]
               id == fr.due_transactions[fr.i].id
           IN /\ last'.arg = id
              /\ passes'[1].i = fr.i + 1
              /\ OneRowAdded(tx_seq + 1)
              /\ transactions'[tx_seq + 1] = InstanceRow(id)
              /\ BalancesMovedBy(InstanceRow(id))
              /\ recurring' = [recurring EXCEPT ![id].next_due_date =
                                 @ + PeriodDays(recurring[id].frequency, recurring[id].custom_interval)]
      /\ (PassCalled("ok") /\ Len(passes) = 1) =>
           /\ last'.result = Len(passes[1].due_transactions)
           /\ UNCHANGED storeVars ]_vars

\* A pass returned 2: the Monthly pattern due on day 1 and the Weekly pattern
\* due on day 2 each have their transaction and their new due date.
C8_Witness ==
  /\ last.op = "create_recurring_transaction_instances" /\ last.status = "ok"
  /\ last.result = 2
  /\ recurring[1].next_due_date = 31
  /\ recurring[2].next_due_date = 9
  /\ \E i, j \in DOMAIN transactions :
       transactions[i].recurring_id = 1 /\ transactions[j].recurring_id = 2

\* C9: check_recurring_transactions returns exactly the patterns whose active
\* flag is true, whose auto_create flag is true and whose next_due_date is set
\* and on or before today, each as stored; start_date and end_date play no
\* part.
C9_CheckReturnsDuePatterns ==
  last.op = "check_recurring_transactions" =>
    /\ ListsExactly(last.rows, DueIds)
    /\ \A k \in DOMAIN last.rows : last.rows[k] = Listed(Store, last.rows[k].id)

\* The check returned a pattern that is due today and whose end_date has
\* passed.
C9_Witness ==
  /\ last.op = "check_recurring_transactions"
  /\ \E k \in DOMAIN last.rows :
       /\ last.rows[k].next_due_date = today
       /\ last.rows[k].end_date # None /\ last.rows[k].end_date < today

NewTransactions == DOMAIN transactions' \ DOMAIN transactions

\* Two calls of create_recurring_transaction_instances in a row, on one day.
SecondCall ==
  /\ last.op = "create_recurring_transaction_instances"
  /\ last'.op = "create_recurring_transaction_instances"

\* C11: a second create_recurring_transaction_instances call made on the same
\* day as a first one, with no other store change in between, creates no
\* further transaction for any pattern the first call materialized.
C11_SecondCallCreatesNothing ==
  [][ SecondCall =>
        \A i \in NewTransactions : \A j \in DOMAIN last.rows :
          transactions'[i].recurring_id # last.rows[j].id ]_vars

\* C11 as amended: the second call creates a further transaction for a
\* pattern the first call materialized only when the next_due_date the first
\* call left (the one it read plus one period) is still on or before that
\* day; for every other pattern of the first call it creates none.
C11_SecondCallOnlyCatchesUp ==
  [][ SecondCall =>
        \A i \in NewTransactions : \A j \in DOMAIN last.rows :
          transactions'[i].recurring_id = last.rows[j].id =>
            last.rows[j].next_due_date
              + PeriodDays(last.rows[j].frequency, last.rows[j].custom_interval) <= today ]_vars

\* A call returned 0 on a day on which an earlier call materialized a pattern.
C11_Witness ==
  /\ last.op = "create_recurring_transaction_instances" /\ last.result = 0
  /\ \E i \in DOMAIN transactions :
       transactions[i].recurring_id # None /\ transactions[i].date = today

\* C12: calculate_next_due_date(D, F, N) returns D + N days for Daily,
\* D + 7N days for Weekly, D + 30N days for Monthly, D + 365N days for Yearly
\* and D + N days for every other frequency value, for every N >= 1.
C12_NextDueDateRule ==
  last.op = "calculate_next_due_date" =>
    LET D == last.rows[1].current_date
        F == last.rows[1].frequency
        N == last.rows[1].interval
    IN /\ F = "Daily" => last.result = D + N
       /\ F = "Weekly" => last.result = D + 7 * N
       /\ F = "Monthly" => last.result = D + 30 * N
       /\ F = "Yearly" => last.result = D + 365 * N
       /\ F \notin {"Daily", "Weekly", "Monthly", "Yearly"} => last.result = D + N

\* A Weekly date with interval 2 moved by fourteen days.
C12_Witness ==
  /\ last.op = "calculate_next_due_date"
  /\ last.rows[1].frequency = "Weekly" /\ last.rows[1].interval = 2
  /\ last.result = last.rows[1].current_date + 14

(***************************************************************************)
(* Properties of budgets.                                                  *)
(***************************************************************************)

\* What transaction i counts for in the spent figure of category c over the
\* days s..e.
SpentShare(i, c, s, e) ==
  LET r == transactions[i] IN
  IF r.transaction_type = "Expense" /\ r.category_id = c /\ s <= r.date /\ r.date <= e
    THEN r.amount ELSE 0

\* C13: after update_budget_spent(c, s, e), every budget whose category is c
\* has spent equal to the sum of the amounts of the Expense transactions with
\* category c and s <= date <= e (0 when there are none), whatever the
\* budget's own start_date and end_date; Income and Transfer transactions
\* and transactions outside the range contribute nothing; the budgets of
\* other categories, and every other column, are unchanged.
C13_SpentIsRecomputed ==
  [][ (last'.op = "update_budget_spent" /\ last'.rows[1].category_id # None) =>
        LET in == last'.rows[1]
            X == SumOver([i \in DOMAIN transactions |->
                            SpentShare(i, in.category_id, in.period_start, in.period_end)],
                         DOMAIN transactions, 0)
        IN /\ DOMAIN budgets' = DOMAIN budgets
           /\ \A b \in DOMAIN budgets :
                budgets'[b] = IF budgets[b].category_id = in.category_id
                                THEN [budgets[b] EXCEPT !.spent = X]
                                ELSE budgets[b]
           /\ transactions' = transactions ]_vars

\* Category 1 was recomputed over days 1..2 with an Expense of 2 on day 2, an
\* Expense on day 3 stored: both budgets of category 1 show 2, also the one
\* whose own period is day 3.
C13_Witness ==
  /\ last.op = "update_budget_spent"
  /\ last.rows[1] = [category_id |-> 1, period_start |-> 1, period_end |-> 2]
  /\ \E i, j \in DOMAIN transactions :
       /\ transactions[i].category_id = 1 /\ transactions[i].transaction_type = "Expense"
       /\ transactions[i].date = 2 /\ transactions[i].amount = 2
       /\ transactions[j].category_id = 1 /\ transactions[j].transaction_type = "Expense"
       /\ transactions[j].date = 3
  /\ budgets[1].spent = 2 /\ budgets[2].spent = 2 /\ budgets[3].spent = 0

(***************************************************************************)
(* Properties of the construction of the store.                            *)
(***************************************************************************)

\* The categories of type ty.
CategoriesOf(ty) == { i \in DOMAIN categories : categories[i].category_type = ty }

\* The store holds the default data and nothing else of it: ten Expense and
\* five Income categories of distinct names, one Cash account with balance
\* 0, the seven default settings.
HoldsDefaultData ==
  /\ Cardinality(CategoriesOf("Expense")) = 10
  /\ Cardinality(CategoriesOf("Income")) = 5
  /\ Cardinality(DOMAIN categories) = 15
  /\ Cardinality({ categories[i].name : i \in DOMAIN categories }) = 15
  /\ Cardinality(DOMAIN accounts) = 1
  /\ \A a \in DOMAIN accounts :
       accounts[a].name = "Cash" /\ accounts[a].current_balance = 0
  /\ Cardinality(DOMAIN settings) = 7

\* C14: running store initialization a second time on a store that was just
\* initialized changes nothing, and the store still holds exactly ten Expense
\* categories, five Income categories, one Cash account with balance 0 and
\* seven settings, with no duplicates; every setting keeps across an
\* initialization the value it had before (also one changed by set_setting).
C14_InitializationIsIdempotent ==
  [][ /\ (last.op = "Database" /\ last.arg = 1 /\ last'.op = "Database") =>
           (UNCHANGED storeVars /\ HoldsDefaultData /\ HoldsDefaultData')
      /\ last'.op = "Database" =>
           \A k \in DOMAIN settings : k \in DOMAIN settings' /\ settings'[k] = settings[k] ]_vars

\* The store was initialized again after the theme was changed: the theme is
\* still the changed one, and there are still fifteen categories.
C14_Witness ==
  /\ last.op = "Database" /\ last.arg = 0
  /\ settings["theme"] = "Dark"
  /\ Cardinality(DOMAIN categories) = 15
  /\ Cardinality(DOMAIN settings) = 7

\* C15: default categories and the default Cash account are seeded exactly
\* once in the lifetime of a store: an initialization of a store that was
\* initialized before inserts no category and no account, whatever the user
\* did in between (also deleting every account or every category).
C15_SeededOnce ==
  [][ (last'.op = "Database" /\ last'.arg = 0) =>
        (categories' = categories /\ accounts' = accounts) ]_vars

(***************************************************************************)
(* Properties of the reminder engine.                                      *)
(***************************************************************************)

\* The debt is unsettled, has a due date, and the due date is at most seven
\* calendar days after today.
DebtIsDue(debt) ==
  ~debt.settled /\ debt.due_date # None /\ debt.due_date - today <= 7

\* C16: check_debt_due_dates reports an unsettled debt with a due date
\* exactly when the due date is at most 7 calendar days after today's date,
\* with severity high exactly when the due date is today or earlier and
\* medium otherwise, whatever the time of day of the call; settled debts and
\* debts without a due date are never reported.
C16_DebtAlertsByCalendarDay ==
  last.op = "check_debt_due_dates" =>
    LET expected == SelectSeq(get_debts(Store), DebtIsDue) IN
    /\ Len(last.rows) = Len(expected)
    /\ \A k \in 1 .. Len(expected) :
         /\ last.rows[k].person = expected[k].person_name
         /\ last.rows[k].due_date = expected[k].due_date
         /\ last.rows[k].severity = IF expected[k].due_date <= today THEN "high" ELSE "medium"

\* The budget's percentage, spent/amount*100 and 0 when amount is 0, is at
\* least x.
UsedAtLeast(budget, x) ==
  IF budget.amount = 0 THEN 0 >= x ELSE budget.spent * 100 >= x * budget.amount

BudgetAlerts(budget) == UsedAtLeast(budget, budget.alert_percentage)

\* C17: check_budget_alerts reports a budget exactly when percentage >=
\* alert_percentage, where percentage is spent/amount*100 and is 0 when
\* amount is 0, with severity high exactly when percentage >= 100 and medium
\* otherwise; it yields one alert per qualifying budget row, in key order.
C17_BudgetAlertsAtThreshold ==
  last.op = "check_budget_alerts" =>
    LET expected == SelectSeq(budgets, BudgetAlerts) IN
    /\ Len(last.rows) = Len(expected)
    /\ \A k \in 1 .. Len(expected) :
         /\ last.rows[k].spent = expected[k].spent
         /\ last.rows[k].amount = expected[k].amount
         /\ last.rows[k].severity = IF UsedAtLeast(expected[k], 100) THEN "high" ELSE "medium"

\* Budget 1 stands at 3 of 4 with a threshold of 75 and is reported medium;
\* budget 2 stands at 5 of 4 and is reported high.
C17_Witness ==
  /\ last.op = "check_budget_alerts"
  /\ budgets[1].spent = 3 /\ budgets[1].amount = 4 /\ budgets[1].alert_percentage = 75
  /\ Len(last.rows) = 2
  /\ last.rows[1].severity = "medium"
  /\ last.rows[2].severity = "high"

\* The goal is not completed, has a deadline at most thirty calendar days
\* after today, and is less than 100 percent funded.
GoalIsDue(goal) ==
  /\ ~goal.completed /\ goal.deadline # None /\ goal.deadline - today <= 30
  /\ IF goal.target_amount = 0 THEN TRUE ELSE goal.current_amount * 100 < 100 * goal.target_amount

\* C18: check_goal_deadlines reports a goal exactly when it is not completed,
\* has a deadline at most 30 calendar days after today's date, and
\* current_amount/target_amount*100 (0 when target_amount is 0) is below 100;
\* the severity is always low; completed goals and goals without a deadline
\* are never reported.
C18_GoalAlertsByCalendarDay ==
  last.op = "check_goal_deadlines" =>
    LET expected == SelectSeq(get_goals(Store), GoalIsDue) IN
    /\ Len(last.rows) = Len(expected)
    /\ \A k \in 1 .. Len(expected) :
         /\ last.rows[k].name = expected[k].name
         /\ last.rows[k].deadline = expected[k].deadline
         /\ last.rows[k].severity = "low"

\* The reminder checks and the reporting queries.
ReadOps ==
  {"check_recurring_transactions", "check_budget_alerts", "check_debt_due_dates",
   "check_goal_deadlines", "get_all_notifications", "get_expense_by_category",
   "get_income_vs_expense", "get_monthly_trend", "search_transactions"}

\* C19: the reminder checks (check_recurring_transactions,
\* check_budget_alerts, check_debt_due_dates, check_goal_deadlines,
\* get_all_notifications) and the reporting queries (get_expense_by_category,
\* get_income_vs_expense, get_monthly_trend, search_transactions) leave every
\* table row, every account balance and every recurring cursor unchanged.
C19_ReadsChangeNothing ==
  [][ last'.op \in ReadOps => UNCHANGED storeVars ]_vars

\* get_all_notifications listed a due pattern, a budget, a debt and a goal
\* on a store that holds transactions, and the pattern is still due.
C19_Witness ==
  /\ last.op = "get_all_notifications"
  /\ \A type \in {"recurring_due", "budget_alert", "debt_due", "goal_deadline"} :
       \E k \in DOMAIN last.rows : last.rows[k].type = type
  /\ tx_seq > 0
  /\ recurring[1].next_due_date <= today

(***************************************************************************)
(* Properties of the entity classes.                                       *)
(***************************************************************************)
RoundTripOps ==
  { "Transaction.round_trip", "Account.round_trip", "Category.round_trip",
    "Subcategory.round_trip", "Budget.round_trip", "Goal.round_trip",
    "Debt.round_trip", "RecurringTransaction.round_trip" }

\* C20: from_dict(to_dict(e)) equals e field by field for every entity type
\* and every value of e's fields, a Transaction whose date carries a time of
\* day and entities with empty text fields included.
C20_RoundTripIsIdentity ==
  last.op \in RoundTripOps =>
    \A field \in DOMAIN last.rows[1] : last.rows[2][field] = last.rows[1][field]

(***************************************************************************)
(* Properties of the reporting queries.                                    *)
(***************************************************************************)
RECURSIVE AmountsUpTo(_, _, _, _)
\* The amounts of the stored transactions 1..id of a type dated within
\* start_date..end_date, added up.
AmountsUpTo(id, type, start_date, end_date) ==
  IF id = 0 THEN 0
  ELSE AmountsUpTo(id - 1, type, start_date, end_date)
         + (IF /\ id \in DOMAIN transactions
               /\ transactions[id].transaction_type = type
               /\ start_date <= transactions[id].date
               /\ transactions[id].date <= end_date
              THEN transactions[id].amount ELSE 0)

\* C21: get_income_vs_expense(s, e) returns the sum of the Income amounts and
\* the sum of the Expense amounts dated within s..e inclusive; Transfers count
\* in neither, and a range of no transactions yields 0 and 0.
C21_IncomeVsExpenseSums ==
  last.op = "get_income_vs_expense" =>
    LET range == last.rows[1]
        result == last.rows[2]
    IN /\ result.income = AmountsUpTo(tx_seq, "Income", range.start_date, range.end_date)
       /\ result.expense = AmountsUpTo(tx_seq, "Expense", range.start_date, range.end_date)

\* An Income and a Transfer lie in the range asked for.
C21_Witness ==
  /\ last.op = "get_income_vs_expense"
  /\ last.rows[2].income > 0
  /\ \E i \in DOMAIN transactions :
       /\ transactions[i].transaction_type = "Transfer"
       /\ last.rows[1].start_date <= transactions[i].date
       /\ transactions[i].date <= last.rows[1].end_date

RECURSIVE TotalsFrom(_, _)
\* The totals of the entries rows[k], rows[k + 1], ... added up.
TotalsFrom(rows, k) ==
  IF k > Len(rows) THEN 0 ELSE rows[k].total + TotalsFrom(rows, k + 1)

\* C22: get_expense_by_category(s, e) returns one entry per category, ordered
\* by descending total, and every Expense dated within s..e is counted in
\* exactly one entry: the totals add up to the expense figure of
\* get_income_vs_expense for the same range.
C22_CategoryTotalsAddUp ==
  last.op = "get_expense_by_category" =>
    LET range == last.rows[1] IN
    /\ \A k \in 2 .. Len(last.rows) - 1 : last.rows[k].total >= last.rows[k + 1].total
    /\ \A k, l \in 2 .. Len(last.rows) : last.rows[k].name = last.rows[l].name => k = l
    /\ TotalsFrom(last.rows, 2) = get_income_vs_expense(Store, range.start_date, range.end_date).expense

(***************************************************************************)
(* Properties of the settings.                                             *)
(***************************************************************************)
\* set_setting(k, v) leaves k holding v, adds no key but k and keeps the value
\* of every other key.
SetSettingUpserts ==
  last'.op = "set_setting" =>
    LET in == last'.rows[1] IN
    /\ get_setting(Store', in.key) = in.value
    /\ DOMAIN settings' = DOMAIN settings \cup {in.key}
    /\ \A k \in DOMAIN settings \ {in.key} : settings'[k] = settings[k]

\* get_setting right after set_setting of the same key returns the value set,
\* and get_setting of a key the store does not hold returns None.
GetSettingReads ==
  last'.op = "get_setting" =>
    LET out == last'.rows[1] IN
    /\ (last.op = "set_setting" /\ last.rows[1].key = out.key) => out.value = last.rows[1].value
    /\ out.key \notin DOMAIN settings => out.value = None

\* A key enters the store only by set_setting of it or as a default setting
\* of Database().
KeysAreSet ==
  \A k \in DOMAIN settings' \ DOMAIN settings :
    \/ last'.op = "set_setting" /\ last'.rows[1].key = k
    \/ last'.op = "Database" /\ k \in DOMAIN default_settings

\* C23: after set_setting(k, v), get_setting(k) returns v, the store holds
\* exactly one entry for k and every other key keeps its value; get_setting of
\* a key that was never set returns None.
C23_SettingsUpsert ==
  [][ SetSettingUpserts /\ GetSettingReads /\ KeysAreSet ]_vars

\* The theme, stored as "Light" by default, was set to "Dark".
C23_Witness ==
  /\ last.op = "set_setting"
  /\ last.rows[1].key = "theme"
  /\ settings["theme"] = "Dark"
  /\ settings["currency"] = "USD"

(***************************************************************************)
(* Properties of the account form.                                         *)
(***************************************************************************)
\* Every account's current_balance is its initial_balance plus the signed
\* effects of the stored transactions.
BalancesMatchEffects ==
  \A a \in DOMAIN accounts :
    Balance(a) = accounts[a].initial_balance
                 + SumOver([i \in DOMAIN transactions |-> AddEffect(transactions[i], a)],
                           DOMAIN transactions, 0)

\* C24: editing an account through the account form (save_account followed
\* by update_account) keeps the account invariant: after the edit,
\* current_balance still equals initial_balance plus the signed effects of the
\* transactions recorded against the account.
C24_EditKeepsBalance ==
  [][ (last'.op = "save_account" /\ last'.arg # None /\ BalancesMatchEffects)
        => BalancesMatchEffects' ]_vars

(***************************************************************************)
(* Properties of the budgets between recomputations.                       *)
(***************************************************************************)
TransactionWrites ==
  {"add_transaction", "update_transaction", "delete_transaction",
   "create_recurring_transaction_instances"}

\* The alerts returned are those of the stored spent values.
AlertsOfStoredSpent ==
  LET expected == SelectSeq(budgets, BudgetAlerts) IN
  /\ Len(last'.rows) = Len(expected)
  /\ \A k \in 1 .. Len(expected) : last'.rows[k].spent = expected[k].spent

\* C25: add_transaction, update_transaction, delete_transaction and
\* create_recurring_transaction_instances leave the spent value of every
\* budget unchanged; spent changes only through update_budget_spent, and
\* between recomputations the budget alerts are computed from the spent value
\* of the last recomputation.
C25_SpentOnlyRecomputed ==
  [][ /\ last'.op \in TransactionWrites => budgets' = budgets
      /\ budgets' # budgets => last'.op = "update_budget_spent"
      /\ last'.op = "check_budget_alerts" => AlertsOfStoredSpent ]_vars

\* Budget 1, recomputed to a spent value above 0 earlier, is read for alerts
\* while the Expenses of its category and period add up to something else.
C25_Witness ==
  /\ last.op = "check_budget_alerts"
  /\ budgets[1].spent > 0
  /\ budgets[1].spent # SumAmount(Store, ExpensesOf(Store, budgets[1].category_id,
                                                     budgets[1].start_date, budgets[1].end_date))

(***************************************************************************)
(* Properties of the materialization of recurring patterns.                *)
(***************************************************************************)
\* The stored transactions created from pattern p.
CreatedFrom(p) == { i \in DOMAIN transactions : transactions[i].recurring_id = p }

\* The step completed the cursor update of pattern p.
CursorAdvanced(p) ==
  /\ last'.op = "create_recurring_transaction_instances"
  /\ last'.status = "iterated"
  /\ last'.arg = p

\* C26: in every committed store state the number of stored transactions
\* created with recurring_id = p equals the number of times p's next_due_date
\* has been advanced: no step, a failure between the transaction insert and
\* the cursor update included, leaves a transaction recorded for a due date
\* the cursor still points at.
C26_InstancesMatchAdvances ==
  [][ \A p \in DOMAIN recurring :
        Cardinality(CreatedFrom(p)') =
          Cardinality(CreatedFrom(p)) + (IF CursorAdvanced(p) THEN 1 ELSE 0) ]_vars

\* Pattern p would be read as due today.
IsDueToday(p) ==
  /\ recurring[p].next_due_date # None /\ recurring[p].next_due_date <= today
  /\ recurring[p].active /\ recurring[p].auto_create

\* The number of whole periods pattern p is overdue today.
WholePeriodsOverdue(p) ==
  IF IsDueToday(p)
    THEN (today - recurring[p].next_due_date)
           \div PeriodDays(recurring[p].frequency, recurring[p].custom_interval)
    ELSE 0

\* The number of calls that still create a transaction for pattern p today.
CallsLeft(p) == IF IsDueToday(p) THEN WholePeriodsOverdue(p) + 1 ELSE 0

\* A call of create_recurring_transaction_instances returned.
CallReturned ==
  last'.op = "create_recurring_transaction_instances" /\ last'.status = "ok"

\* The transactions the step created from pattern p.
NewFrom(p) == { i \in NewTransactions : transactions'[i].recurring_id = p }

\* The call created at most one transaction for p, and advanced p's
\* next_due_date if it created one.
OneStepForward(p) ==
  /\ Cardinality(NewFrom(p)) <= 1
  /\ NewFrom(p) # {} => recurring'[p].next_due_date > recurring[p].next_due_date

\* C27: for every pattern whose custom_interval is at least 1, each
\* materialization strictly increases its next_due_date and creates at most one
\* transaction for it per call, so repeated calls on one day reach a call that
\* returns 0; the number of calls needed equals the number of whole periods the
\* pattern is overdue.
C27_CallsEqualPeriodsOverdue ==
  [][ CallReturned =>
        /\ \A p \in DOMAIN recurring : recurring[p].custom_interval >= 1 =>
              /\ OneStepForward(p)
              /\ NewFrom(p) # {} <=> WholePeriodsOverdue(p) >= 1
              /\ NewFrom(p) # {} => WholePeriodsOverdue(p)' = WholePeriodsOverdue(p) - 1
        /\ last'.result = 0 <=> \A p \in DOMAIN recurring : WholePeriodsOverdue(p) = 0 ]_vars

\* C27 as amended: the number of calls needed is the number of whole periods
\* the pattern is overdue plus one (a pattern due today takes one call); each
\* call creates one transaction for a due pattern and strictly increases its
\* next_due_date, and the call that finds no pattern due returns 0.
C27_CallsEqualPeriodsOverduePlusOne ==
  [][ CallReturned =>
        /\ \A p \in DOMAIN recurring : recurring[p].custom_interval >= 1 =>
              /\ OneStepForward(p)
              /\ NewFrom(p) # {} <=> CallsLeft(p) >= 1
              /\ NewFrom(p) # {} => CallsLeft(p)' = CallsLeft(p) - 1
        /\ last'.result = 0 <=> \A p \in DOMAIN recurring : CallsLeft(p) = 0 ]_vars

\* A call returned 0 on a day on which two earlier calls each created a
\* transaction from pattern 1.
C27_Witness ==
  /\ last.op = "create_recurring_transaction_instances" /\ last.result = 0
  /\ Cardinality({ i \in CreatedFrom(1) : transactions[i].date = today }) = 2

(***************************************************************************)
(* Properties of Transfers.                                                *)
(***************************************************************************)
\* The step is a completed call that stored new transactions, Transfers all.
TransfersAdded ==
  /\ last'.op \in {"add_transaction", "create_recurring_transaction_instances"}
  /\ last'.status = "ok"
  /\ NewTransactions # {}
  /\ \A i \in NewTransactions : transactions'[i].transaction_type = "Transfer"

\* C28: add_transaction of a Transfer leaves get_total_balance (the sum of
\* current_balance over all accounts) unchanged, for Transfers submitted
\* directly and for Transfers created from a recurring pattern by
\* create_recurring_transaction_instances.
C28_TransfersKeepTotal ==
  [][ TransfersAdded => get_total_balance(Store') = get_total_balance(Store) ]_vars

(***************************************************************************)
(* Properties of deleted accounts.                                         *)
(***************************************************************************)
\* The identifiers of the accounts deleted so far.
DeletedAccounts == (1 .. sqlite_sequence.accounts) \ DOMAIN accounts

\* The accounts a transactions row references.
AccountsOf(r) == {r.account_id, r.to_account_id} \ {None}

\* The rows the step stored, replaced or removed: as they were and as they are.
RowsTouched ==
  { transactions[i] : i \in { j \in DOMAIN transactions :
                                j \notin DOMAIN transactions' \/ transactions'[j] # transactions[j] } }
    \cup { transactions'[i] : i \in { j \in DOMAIN transactions' :
                                        j \notin DOMAIN transactions \/ transactions'[j] # transactions[j] } }

\* A completed add, update or delete of transactions that reference deleted
\* accounts only.
DanglingWrite ==
  /\ last'.op \in {"add_transaction", "update_transaction", "delete_transaction"}
  /\ last'.status = "ok"
  /\ RowsTouched # {}
  /\ \A r \in RowsTouched : AccountsOf(r) # {} /\ AccountsOf(r) \subseteq DeletedAccounts

C30_UpdateKeepsRecurringId ==
  [][ last'.op = "update_transaction" =>
        /\ DOMAIN transactions' = DOMAIN transactions
        /\ \A i \in DOMAIN transactions :
             transactions'[i].recurring_id = transactions[i].recurring_id ]_vars

\* The transaction created from pattern 1 was revised with a record that
\* carries another recurring_id, and still points at pattern 1.
C30_Witness ==
  /\ last.op = "update_transaction" /\ last.status = "ok" /\ last.arg = 1
  /\ 1 \in DOMAIN transactions
  /\ transactions[1].description = "revised"
  /\ transactions[1].recurring_id = 1

====
